---- MODULE Spec2Model ----
(***************************************************************************)
(* A model of services/technical_indicators.py (TechnicalIndicators):      *)
(* calculate_ema, calculate_macd, calculate_kdj, calculate_rsi and          *)
(* calculate_all_indicators, as operators over lists of daily frames, and   *)
(* a state machine whose actions are single calls of these methods.        *)
(* services/health_calculator.py (HealthCalculator) and                     *)
(* services/recommendation_calculator.py (RecommendationCalculator) are     *)
(* modelled the same way, each with its own specification: SpecHealth and   *)
(* SpecRecommend.  SpecSave runs save_recommendations storage call by       *)
(* storage call, next to a second run and a reader of its table, and        *)
(* SpecIndex is the cache of GET /api/realtime/index (api_server.py).       *)
(*                                                                         *)
(* Python floats are modelled as exact rationals <<numerator, denominator>> *)
(* in lowest terms with a positive denominator.  Two more raw values can    *)
(* sit in a price field: None (an absent price) and a non-numeric value on  *)
(* which float() raises.                                                    *)
(***************************************************************************)
EXTENDS Integers, Sequences, FiniteSets, TLC

VARIABLES
    data,        \* the list of frames handed to the call (caller's order)
    op,          \* the method called: "none" before the call
    params,      \* the call's period arguments, a tuple of integers
    result,      \* the list the call returned (<<>> when it raised)
    exc,         \* TRUE when the call raised to its caller
    calls,       \* calculate_all_indicators: the calculations it invoked, in order
    caught,      \* calculate_all_indicators: the calculations whose exception it caught
    rsv_values,  \* calculate_kdj: its rsv_values list
    history_data,   \* the rows storage holds for the scored security, newest first
    hop,            \* HealthCalculator: the method called, "none" before the call
    secid,          \* HealthCalculator: the secid argument
    health,         \* the dict calculate_health_score returned
    hraised,        \* TRUE when the HealthCalculator call raised to its caller
    storage_fails,  \* the storage calls of the HealthCalculator call that raised
    health_table,   \* the rows of stock_health_scores
    market,         \* the securities storage holds, with their flow history
    rop,            \* RecommendationCalculator: the method called
    rargs,          \* calculate_recommendations: <<days, limit>>
    recommendations,\* the list calculate_recommendations returned
    rraised,        \* TRUE when the RecommendationCalculator call raised
    recommended_stocks, \* the rows of the table recommended_stocks, in insert order
    spc,            \* save_recommendations: where each run stands
    sargs,          \* save_recommendations: each run's <<days, limit>>
    srecs,          \* save_recommendations: each run's recommendations list
    sidx,           \* save_recommendations: each run's loop index idx
    prior,          \* the shortlist stored when each run began
    alone,          \* TRUE while no other run has written since the run began
    response,       \* what GET /api/recommendations/stocks last returned
    response_run,   \* the run in progress alone when it was read, else "none"
    index_cache,    \* api_server._index_cache: data and timestamp
    clock,          \* time.time(), in whole seconds
    last_fetch,     \* the most recent call of get_index_data, <<>> before any
    index_response  \* what GET /api/realtime/index last returned, and when

\* the variables of the indicator calls
ivars == <<data, op, params, result, exc, calls, caught, rsv_values>>

\* the variables of the health-score calls
hvars == <<history_data, hop, secid, health, hraised, storage_fails, health_table>>

\* the variables of the recommendation calls
rvars == <<market, rop, rargs, recommendations, rraised>>

\* the variables of save_recommendations and of the readers of its table
svars == <<recommended_stocks, spc, sargs, srecs, sidx, prior, alone,
           response, response_run>>

\* the variables of the realtime index endpoint
cvars == <<index_cache, clock, last_fetch, index_response>>

vars == <<ivars, hvars, rvars, svars, cvars>>

----------------------------------------------------------------------------
(* Bounds of the model *)

\* the longest frame list built from the small bars
MaxLen == 4

----------------------------------------------------------------------------
(* Float arithmetic, exact *)

Abs(x) == IF x < 0 THEN -x ELSE x

RECURSIVE GCD(_, _)
GCD(a, b) == IF b = 0 THEN a ELSE GCD(b, a % b)

\* n/d in lowest terms, d # 0
Norm(n, d) ==
    LET g == GCD(Abs(n), Abs(d))
        s == IF d < 0 THEN -1 ELSE 1
    IN  <<(s * n) \div g, (s * d) \div g>>

Rat(n) == <<n, 1>>

\* Python's None
None == <<0, 0>>

\* a value float() raises on (a non-numeric string)
BadValue == <<1, 0>>

RAdd(a, b) == Norm(a[1] * b[2] + b[1] * a[2], a[2] * b[2])

RSub(a, b) == Norm(a[1] * b[2] - b[1] * a[2], a[2] * b[2])

RMul(a, b) == Norm(a[1] * b[1], a[2] * b[2])

\* a / b with b # 0
RDiv(a, b) == Norm(a[1] * b[2], a[2] * b[1])

RLt(a, b) == a[1] * b[2] < b[1] * a[2]

RLe(a, b) == a[1] * b[2] <= b[1] * a[2]

RECURSIVE RSum(_)
RSum(s) == IF s = <<>> THEN Rat(0) ELSE RAdd(Head(s), RSum(Tail(s)))

RECURSIVE RMax(_)
RMax(s) ==
    IF Len(s) = 1 THEN s[1]
    ELSE LET m == RMax(Tail(s)) IN IF RLt(s[1], m) THEN m ELSE s[1]

RECURSIVE RMin(_)
RMin(s) ==
    IF Len(s) = 1 THEN s[1]
    ELSE LET m == RMin(Tail(s)) IN IF RLt(m, s[1]) THEN m ELSE s[1]

----------------------------------------------------------------------------
(* _to_float and _ensure_ascending_order *)

\* _to_float: None becomes 0.0, a number its float; raises on BadValue
to_float(value) == IF value = None THEN Rat(0) ELSE value

to_float_raises(value) == value = BadValue

\* stable insertion of frame d into the list s sorted by trade_date
RECURSIVE InsertByDate(_, _)
InsertByDate(s, d) ==
    IF s = <<>> THEN <<d>>
    ELSE IF s[Len(s)].trade_date <= d.trade_date THEN Append(s, d)
    ELSE Append(InsertByDate(SubSeq(s, 1, Len(s) - 1), d), s[Len(s)])

\* the list left in the caller's order
KeepCallerOrder(s) == s

RECURSIVE ensure_ascending_order(_)
ensure_ascending_order(s) ==
    IF s = <<>> THEN <<>>
    ELSE InsertByDate(ensure_ascending_order(SubSeq(s, 1, Len(s) - 1)), s[Len(s)])

\* [to_float(d.get(key, 0)) for d in sorted_data]
Column(s, key) == [i \in 1..Len(s) |-> to_float(s[i][key])]

ColumnRaises(s, key) == \E i \in 1..Len(s) : to_float_raises(s[i][key])

\* {**d, k: v, ...}: the new keys override those of d
Merge(d, new) == new @@ d

----------------------------------------------------------------------------
(* calculate_ema *)

\* (a variant that divides by period instead of period + 1)
MultiplierOverPeriod(period) == RDiv(Rat(2), Rat(period))

\* multiplier = 2.0 / (period + 1)
Multiplier(period) == RDiv(Rat(2), Rat(period + 1))

\* ema = (prices[i] - ema_values[-1]) * multiplier + ema_values[-1]
EmaStep(price, prev, period) == RAdd(RMul(RSub(price, prev), Multiplier(period)), prev)

\* sma = sum(prices[:period]) / period
Sma(prices, period) == RDiv(RSum(SubSeq(prices, 1, period)), Rat(period))

\* ema_values after the loop has handled the prices up to position upto
RECURSIVE EmaValues(_, _, _)
EmaValues(prices, period, upto) ==
    IF upto = period THEN <<Sma(prices, period)>>
    ELSE LET before == EmaValues(prices, period, upto - 1)
         IN  Append(before, EmaStep(prices[upto], before[Len(before)], period))

\* (a variant that pads one None too few)
NonePadOneShort(n) == [i \in 1..(n - 1) |-> None]

\* [None] * (period - 1)
NonePad(n) == [i \in 1..n |-> None]

\* what calculate_ema returns when there are fewer prices than period
EmaShort(prices, period) == <<>>

calculate_ema(prices, period) ==
    IF Len(prices) = 0 \/ period <= 0 THEN <<>>
    ELSE IF Len(prices) >= period
         THEN NonePad(period - 1) \o EmaValues(prices, period, Len(prices))
         ELSE EmaShort(prices, period)

----------------------------------------------------------------------------
(* calculate_macd *)

\* (a variant that subtracts the fast EMA from the slow one)
MacdLineReversed(fast_ema, slow_ema) ==
    LET min_len == IF Len(fast_ema) < Len(slow_ema) THEN Len(fast_ema) ELSE Len(slow_ema)
    IN  [i \in 1..min_len |->
            IF fast_ema[i] # None /\ slow_ema[i] # None
            THEN RSub(slow_ema[i], fast_ema[i])
            ELSE None]

\* macd_line: fast_ema[i] - slow_ema[i] where both are present, over min_len entries
MacdLine(fast_ema, slow_ema) ==
    LET min_len == IF Len(fast_ema) < Len(slow_ema) THEN Len(fast_ema) ELSE Len(slow_ema)
    IN  [i \in 1..min_len |->
            IF fast_ema[i] # None /\ slow_ema[i] # None
            THEN RSub(fast_ema[i], slow_ema[i])
            ELSE None]

\* valid_macd_values = [m for m in macd_line if m is not None]
ValidValues(line) == SelectSeq(line, LAMBDA m : m # None)

\* valid_idx when the loop reaches position i of macd_line: the valid entries before it
ValidIdx(macd_line, i) == Cardinality({j \in 1..(i - 1) : macd_line[j] # None})

\* signal_idx = valid_idx - (signal_period - 1), a 0-based index into signal_line_raw
SignalIdx(valid_idx, signal_period) == valid_idx - (signal_period - 1)

\* signal_line: signal_line_raw mapped back to the positions of macd_line
SignalLine(macd_line, signal_line_raw, signal_period) ==
    [i \in 1..Len(macd_line) |->
        IF macd_line[i] # None
        THEN LET signal_idx == SignalIdx(ValidIdx(macd_line, i), signal_period)
             IN  IF signal_idx >= 0 /\ signal_idx < Len(signal_line_raw)
                 THEN signal_line_raw[signal_idx + 1]
                 ELSE None
        ELSE None]

\* (a variant that subtracts the wrong way round)
HistogramSwapped(macd_val, signal_val) ==
    IF macd_val # None /\ signal_val # None THEN RSub(signal_val, macd_val) ELSE None

\* histogram = macd_val - signal_val when both are present
Histogram(macd_val, signal_val) ==
    IF macd_val # None /\ signal_val # None THEN RSub(macd_val, signal_val) ELSE None

\* x[i] if i < len(x) else None
At(x, i) == IF i <= Len(x) THEN x[i] ELSE None

MacdFields(m, s, h) ==
    [macd |-> m, macd_signal |-> s, macd_histogram |-> h]

\* what calculate_macd returns on fewer than slow_period + signal_period prices
MacdShort(sorted_data) == <<>>

calculate_macd(d, fast_period, slow_period, signal_period) ==
    IF d = <<>> THEN <<>>
    ELSE
    LET sorted_data == ensure_ascending_order(d)
        prices == Column(sorted_data, "close_price")
    IN  IF Len(prices) < slow_period + signal_period THEN MacdShort(sorted_data)
        ELSE
        LET fast_ema == calculate_ema(prices, fast_period)
            slow_ema == calculate_ema(prices, slow_period)
            macd_line == MacdLine(fast_ema, slow_ema)
            valid_macd_values == ValidValues(macd_line)
        IN  IF Len(valid_macd_values) < signal_period
            THEN [i \in 1..Len(sorted_data) |->
                    Merge(sorted_data[i], MacdFields(At(macd_line, i), None, None))]
            ELSE
            LET signal_line_raw == calculate_ema(valid_macd_values, signal_period)
                signal_line == SignalLine(macd_line, signal_line_raw, signal_period)
            IN  [i \in 1..Len(sorted_data) |->
                    LET macd_val == At(macd_line, i)
                        signal_val == At(signal_line, i)
                    IN  Merge(sorted_data[i],
                              MacdFields(macd_val, signal_val,
                                         Histogram(macd_val, signal_val)))]

\* calculate_macd raises: float() fails on a price (the prices are read before
\* the length is checked)
macd_raises(d) == d # <<>> /\ ColumnRaises(d, "close_price")

----------------------------------------------------------------------------
(* calculate_kdj *)

\* (a variant that answers a flat window with 0 instead of 50)
RsvAtFlatZero(highs, lows, closes, i, rsv_period) ==
    LET period_high == RMax(SubSeq(highs, i - rsv_period + 1, i))
        period_low == RMin(SubSeq(lows, i - rsv_period + 1, i))
    IN  IF period_high = period_low
        THEN Rat(0)
        ELSE RMul(RDiv(RSub(closes[i], period_low), RSub(period_high, period_low)),
                  Rat(100))

\* the rsv of the window of rsv_period frames ending at position i
RsvAt(highs, lows, closes, i, rsv_period) ==
    LET period_high == RMax(SubSeq(highs, i - rsv_period + 1, i))
        period_low == RMin(SubSeq(lows, i - rsv_period + 1, i))
    IN  IF period_high = period_low
        THEN Rat(50)
        ELSE RMul(RDiv(RSub(closes[i], period_low), RSub(period_high, period_low)),
                  Rat(100))

RsvValues(highs, lows, closes, rsv_period) ==
    [i \in 1..Len(closes) |->
        IF i - 1 < rsv_period - 1 THEN None
        ELSE RsvAt(highs, lows, closes, i, rsv_period)]

\* (a variant with the fixed weights 2/3 and 1/3)
SmoothTwoThirds(prev, today, smooth) ==
    RAdd(RMul(RDiv(Rat(2), Rat(3)), prev), RMul(RDiv(Rat(1), Rat(3)), today))

\* the weights taken over smooth instead of smooth + 1
SmoothOverPeriod(prev, today, smooth) ==
    RAdd(RMul(RDiv(Rat(2), Rat(smooth)), prev),
         RMul(RDiv(Rat(1), Rat(smooth)), today))

\* (2.0 / (smooth + 1)) * prev + (1.0 / (smooth + 1)) * today
Smooth(prev, today, smooth) ==
    RAdd(RMul(RDiv(Rat(2), Rat(smooth + 1)), prev),
         RMul(RDiv(Rat(1), Rat(smooth + 1)), today))

\* k_values[i - 1] (the list's 1-based position i)
RECURSIVE KValue(_, _, _, _)
KValue(rsv, i, rsv_period, k_smooth) ==
    IF rsv[i] = None THEN None
    ELSE IF i - 1 = rsv_period - 1 THEN rsv[i]
    ELSE LET prev_k == IF i > 1 THEN KValue(rsv, i - 1, rsv_period, k_smooth)
                       ELSE Rat(50)
         IN  Smooth(prev_k, rsv[i], k_smooth)

RECURSIVE DValue(_, _, _, _, _)
DValue(rsv, i, rsv_period, k_smooth, d_smooth) ==
    IF rsv[i] = None THEN None
    ELSE LET k == KValue(rsv, i, rsv_period, k_smooth)
         IN  IF i - 1 = rsv_period - 1 THEN k
             ELSE LET prev_d == IF i > 1
                                THEN DValue(rsv, i - 1, rsv_period, k_smooth, d_smooth)
                                ELSE Rat(50)
                  IN  Smooth(prev_d, k, d_smooth)

\* j_val = 3 * k_val - 2 * d_val when both are present
JValue(k_val, d_val) ==
    IF k_val # None /\ d_val # None
    THEN RSub(RMul(Rat(3), k_val), RMul(Rat(2), d_val))
    ELSE None

\* what calculate_kdj returns on fewer than rsv_period frames
KdjShort(sorted_data) == <<>>

\* rsv_values as calculate_kdj builds it (<<>> when it returns before)
kdj_rsv_values(d, rsv_period) ==
    IF d = <<>> \/ Len(d) < rsv_period THEN <<>>
    ELSE LET sorted_data == ensure_ascending_order(d)
         IN  RsvValues(Column(sorted_data, "high_price"),
                       Column(sorted_data, "low_price"),
                       Column(sorted_data, "close_price"), rsv_period)

calculate_kdj(d, rsv_period, k_smooth, d_smooth) ==
    IF d = <<>> THEN <<>>
    ELSE
    LET sorted_data == ensure_ascending_order(d)
    IN  IF Len(sorted_data) < rsv_period THEN KdjShort(sorted_data)
        ELSE
        LET rsv == kdj_rsv_values(d, rsv_period)
        IN  [i \in 1..Len(sorted_data) |->
                LET k_val == KValue(rsv, i, rsv_period, k_smooth)
                    d_val == DValue(rsv, i, rsv_period, k_smooth, d_smooth)
                IN  Merge(sorted_data[i],
                          [kdj_k |-> k_val, kdj_d |-> d_val,
                           kdj_j |-> JValue(k_val, d_val)])]

\* calculate_kdj raises: float() fails on a price, read after the length check
kdj_raises(d, rsv_period) ==
    /\ d # <<>>
    /\ Len(d) >= rsv_period
    /\ \/ ColumnRaises(d, "high_price")
       \/ ColumnRaises(d, "low_price")
       \/ ColumnRaises(d, "close_price")

----------------------------------------------------------------------------
(* calculate_rsi *)

\* changes = closes[i] - closes[i - 1] for i in 1..len-1
Changes(closes) == [i \in 1..(Len(closes) - 1) |-> RSub(closes[i + 1], closes[i])]

\* gains = [change if change > 0 else 0.0]
Gains(changes) ==
    [i \in 1..Len(changes) |-> IF RLt(Rat(0), changes[i]) THEN changes[i] ELSE Rat(0)]

\* (a variant that keeps the sign of a fall)
LossesSigned(changes) ==
    [i \in 1..Len(changes) |-> IF RLt(changes[i], Rat(0)) THEN changes[i] ELSE Rat(0)]

\* losses = [-change if change < 0 else 0.0]
Losses(changes) ==
    [i \in 1..Len(changes) |->
        IF RLt(changes[i], Rat(0)) THEN RSub(Rat(0), changes[i]) ELSE Rat(0)]

\* (a variant without the zero-loss branch: a zero average loss gives 0)
RsiOfZeroLossIsZero(avg_gain, avg_loss) ==
    IF avg_gain = None \/ avg_loss = None THEN None
    ELSE IF avg_loss = Rat(0) THEN Rat(0)
    ELSE RSub(Rat(100), RDiv(Rat(100), RAdd(Rat(1), RDiv(avg_gain, avg_loss))))

\* one entry of rsi_values
RsiOf(avg_gain, avg_loss) ==
    IF avg_gain = None \/ avg_loss = None THEN None
    ELSE IF avg_loss = Rat(0) THEN Rat(100)
    ELSE LET rs == RDiv(avg_gain, avg_loss)
         IN  RSub(Rat(100), RDiv(Rat(100), RAdd(Rat(1), rs)))

RsiValues(avg_gains, avg_losses) ==
    [i \in 1..Len(avg_gains) |-> RsiOf(avg_gains[i], avg_losses[i])]

\* what calculate_rsi returns on fewer than period + 1 frames
RsiShort(sorted_data) == <<>>

\* (a variant that reads rsi_values at the frame's own position)
RsiFieldUnshifted(rsi_values, i) == At(rsi_values, i)

\* rsi_val of the frame at position i: None on the first frame, then
\* rsi_values[i - 1] (rsi_values has one entry per change)
RsiField(rsi_values, i) == IF i = 1 THEN None ELSE At(rsi_values, i - 1)

calculate_rsi(d, period) ==
    IF d = <<>> THEN <<>>
    ELSE
    LET sorted_data == ensure_ascending_order(d)
    IN  IF Len(sorted_data) < period + 1 THEN RsiShort(sorted_data)
        ELSE
        LET closes == Column(sorted_data, "close_price")
            changes == Changes(closes)
            avg_gains == calculate_ema(Gains(changes), period)
            avg_losses == calculate_ema(Losses(changes), period)
            rsi_values == RsiValues(avg_gains, avg_losses)
        IN  [i \in 1..Len(sorted_data) |->
                Merge(sorted_data[i],
                      [rsi |-> RsiField(rsi_values, i)])]

\* calculate_rsi raises: float() fails on a price, read after the length check
rsi_raises(d, period) ==
    d # <<>> /\ Len(d) >= period + 1 /\ ColumnRaises(d, "close_price")

----------------------------------------------------------------------------
(* calculate_all_indicators *)

\* the defaults of calculate_all_indicators
DefaultMacdParams == <<12, 26, 9>>

DefaultKdjParams == <<9, 3, 3>>

\* (a variant that loses the frames when the calculation raises)
TryStepDropsFrames(before, raises, computed) == IF raises THEN <<>> ELSE computed

\* try: result = calculation(result) / except Exception: log the error
\* (the result a step leaves, given the result it was handed)
TryStep(before, raises, computed) == IF raises THEN before ELSE computed

AfterMacd(d, mp) ==
    TryStep(d, macd_raises(d), calculate_macd(d, mp[1], mp[2], mp[3]))

AfterKdj(d, mp, kp) ==
    LET r == AfterMacd(d, mp)
    IN  TryStep(r, kdj_raises(r, kp[1]), calculate_kdj(r, kp[1], kp[2], kp[3]))

AfterRsi(d, mp, kp, rp) ==
    LET r == AfterKdj(d, mp, kp)
    IN  TryStep(r, rsi_raises(r, rp), calculate_rsi(r, rp))

calculate_all_indicators(d, mp, kp, rp) == AfterRsi(d, mp, kp, rp)

\* the calculations whose exception calculate_all_indicators caught
AllCaught(d, mp, kp, rp) ==
    (IF macd_raises(d) THEN {"macd"} ELSE {})
    \cup (IF kdj_raises(AfterMacd(d, mp), kp[1]) THEN {"kdj"} ELSE {})
    \cup (IF rsi_raises(AfterKdj(d, mp, kp), rp) THEN {"rsi"} ELSE {})

\* the calculations calculate_all_indicators invokes, in order
AllCalls == <<"macd", "kdj", "rsi">>

----------------------------------------------------------------------------
(* The inputs of the calls *)

Bar(h, l, c) == [high_price |-> h, low_price |-> l, close_price |-> c]

\* the daily bars the frame lists are built from: a flat day, an ordinary day,
\* a day with absent prices, and two malformed days
Bars ==
    { Bar(Rat(1), Rat(1), Rat(1)),
      Bar(Rat(3), Rat(1), Rat(2)),
      Bar(None, None, None),
      Bar(BadValue, Rat(1), Rat(1)),
      Bar(Rat(2), Rat(1), BadValue) }

BarLists == UNION {[1..n -> Bars] : n \in 0..MaxLen}

\* the frames of the bars bs, dated 1..n in list order or (rev) in reverse order
Frames(bs, rev) ==
    [i \in 1..Len(bs) |->
        [trade_date |-> IF rev THEN Len(bs) + 1 - i ELSE i,
         close_price |-> bs[i].close_price,
         high_price |-> bs[i].high_price,
         low_price |-> bs[i].low_price]]

\* n days of close prices 100, 101, ... on ascending dates
Ramp(n) ==
    [i \in 1..n |->
        [trade_date |-> i, close_price |-> Rat(99 + i),
         high_price |-> Rat(99 + i), low_price |-> Rat(99 + i)]]

\* the lists of at most MaxLen frames
ShortInputs == {Frames(bs, rev) : bs \in BarLists, rev \in BOOLEAN}

\* 40 days of close prices 100..139
GoldenData == Ramp(40)

\* 20 days of strictly increasing close prices
RisingData == Ramp(20)

\* 11 days of the same bar: high 3, low 1, close 2, so that RSV is 50 on
\* every day that has one
SteadyData ==
    [i \in 1..11 |->
        [trade_date |-> i, close_price |-> Rat(2),
         high_price |-> Rat(3), low_price |-> Rat(1)]]

\* the order in which a caller hands over four days: neither ascending nor
\* descending
ShuffledDates == <<3, 1, 4, 2>>

\* four priced days in that order
ShuffledInputs ==
    {[i \in 1..Len(ShuffledDates) |->
        [trade_date |-> ShuffledDates[i],
         close_price |-> bs[i].close_price,
         high_price |-> bs[i].high_price,
         low_price |-> bs[i].low_price]] :
     bs \in [1..Len(ShuffledDates) ->
               {Bar(Rat(1), Rat(1), Rat(1)), Bar(Rat(3), Rat(1), Rat(2))}]}

\* four days that each close at their high, above the day before
ClimbingData == Ramp(4)

Inputs ==
    ShortInputs \cup ShuffledInputs
    \cup {GoldenData, RisingData, SteadyData, ClimbingData}

EmaPeriods == {0, 1, 2, 3}

MacdParamSet ==
    {<<1, 2, 1>>, <<1, 2, 2>>, <<2, 3, 1>>, <<1, 1, 2>>, <<3, 1, 1>>, DefaultMacdParams}

KdjParamSet ==
    {<<1, 3, 3>>, <<2, 3, 3>>, <<3, 2, 1>>, <<2, 2, 2>>, DefaultKdjParams}

RsiPeriods == {1, 2, 3, 14}

AllParamSet ==
    { <<DefaultMacdParams, DefaultKdjParams, 14>>,
      <<<<1, 2, 1>>, <<2, 3, 3>>, 2>>,
      <<<<1, 2, 2>>, <<2, 3, 3>>, 1>>,
      <<<<1, 2, 1>>, <<1, 3, 3>>, 4>> }

----------------------------------------------------------------------------
(* The state machine: one call on one input *)

\* no HealthCalculator call and nothing in its tables
HealthIdle ==
    /\ history_data = <<>>
    /\ hop = "none"
    /\ secid = ""
    /\ health = <<>>
    /\ hraised = FALSE
    /\ storage_fails = {}
    /\ health_table = {}

\* no RecommendationCalculator call and nothing in its tables
RecommendIdle ==
    /\ market = <<>>
    /\ rop = "none"
    /\ rargs = <<>>
    /\ recommendations = <<>>
    /\ rraised = FALSE

\* the runs of save_recommendations: the daily job of scheduler.py and the
\* script calculate_recommendations.py
Savers == {"scheduler", "script"}

\* no save_recommendations run, no reader and an empty table
SaveIdle ==
    /\ recommended_stocks = <<>>
    /\ spc = [p \in Savers |-> "idle"]
    /\ sargs = [p \in Savers |-> <<>>]
    /\ srecs = [p \in Savers |-> <<>>]
    /\ sidx = [p \in Savers |-> 0]
    /\ prior = [p \in Savers |-> <<>>]
    /\ alone = [p \in Savers |-> TRUE]
    /\ response = <<>>
    /\ response_run = "none"

\* no request to the realtime index endpoint
CacheIdle ==
    /\ index_cache = [data |-> None, timestamp |-> None]
    /\ clock = 0
    /\ last_fetch = <<>>
    /\ index_response = <<>>

Init ==
    /\ data \in Inputs
    /\ op = "none"
    /\ params = <<>>
    /\ result = <<>>
    /\ exc = FALSE
    /\ calls = <<>>
    /\ caught = {}
    /\ rsv_values = <<>>
    /\ HealthIdle
    /\ RecommendIdle
    /\ SaveIdle
    /\ CacheIdle

\* calculate_ema(prices, period) on the close prices of data, in list order
CalcEma ==
    /\ op = "none"
    /\ ~ColumnRaises(data, "close_price")
    /\ \E period \in EmaPeriods :
        /\ op' = "ema"
        /\ params' = <<period>>
        /\ result' = calculate_ema(Column(data, "close_price"), period)
    /\ UNCHANGED <<data, exc, calls, caught, rsv_values>>
    /\ UNCHANGED <<hvars, rvars, svars, cvars>>

\* calculate_macd(data, fast_period, slow_period, signal_period)
CalcMacd ==
    /\ op = "none"
    /\ \E mp \in MacdParamSet :
        /\ op' = "macd"
        /\ params' = mp
        /\ exc' = macd_raises(data)
        /\ result' = IF macd_raises(data) THEN <<>>
                     ELSE calculate_macd(data, mp[1], mp[2], mp[3])
    /\ UNCHANGED <<data, calls, caught, rsv_values>>
    /\ UNCHANGED <<hvars, rvars, svars, cvars>>

\* calculate_kdj(data, rsv_period, k_smooth, d_smooth), on the short lists (the
\* exact K and D of a long list have denominators beyond 32-bit integers)
CalcKdj ==
    /\ op = "none"
    /\ Len(data) <= MaxLen \/ data = SteadyData
    /\ \E kp \in KdjParamSet :
        /\ op' = "kdj"
        /\ params' = kp
        /\ exc' = kdj_raises(data, kp[1])
        /\ result' = IF kdj_raises(data, kp[1]) THEN <<>>
                     ELSE calculate_kdj(data, kp[1], kp[2], kp[3])
        /\ rsv_values' = IF kdj_raises(data, kp[1]) THEN <<>>
                         ELSE kdj_rsv_values(data, kp[1])
    /\ UNCHANGED <<data, calls, caught>>
    /\ UNCHANGED <<hvars, rvars, svars, cvars>>

\* calculate_rsi(data, period)
CalcRsi ==
    /\ op = "none"
    /\ \E rp \in RsiPeriods :
        /\ op' = "rsi"
        /\ params' = <<rp>>
        /\ exc' = rsi_raises(data, rp)
        /\ result' = IF rsi_raises(data, rp) THEN <<>> ELSE calculate_rsi(data, rp)
    /\ UNCHANGED <<data, calls, caught, rsv_values>>
    /\ UNCHANGED <<hvars, rvars, svars, cvars>>

\* calculate_all_indicators(data, macd_params, kdj_params, rsi_period), on the
\* short lists as it runs calculate_kdj
CalcAll ==
    /\ op = "none"
    /\ Len(data) <= MaxLen
    /\ \E ap \in AllParamSet :
        /\ op' = "all"
        /\ params' = ap
        /\ result' = calculate_all_indicators(data, ap[1], ap[2], ap[3])
        /\ caught' = AllCaught(data, ap[1], ap[2], ap[3])
    /\ calls' = AllCalls
    /\ exc' = FALSE
    /\ UNCHANGED <<data, rsv_values>>
    /\ UNCHANGED <<hvars, rvars, svars, cvars>>

Next == CalcEma \/ CalcMacd \/ CalcKdj \/ CalcRsi \/ CalcAll

Spec == Init /\ [][Next]_vars

----------------------------------------------------------------------------
(* HealthCalculator.calculate_health_score *)

\* the longest history built from the small rows
MaxHist == 4

\* float(v or 0): None and 0 become 0.0
FloatOr0(v) == IF v = None \/ v = Rat(0) THEN Rat(0) ELSE v

\* ORDER BY trade_date DESC LIMIT 30 (the stored rows are kept newest first)
QueryHistory(rows) == SubSeq(rows, 1, IF Len(rows) < 30 THEN Len(rows) ELSE 30)

\* recent_7d = history_data[:7] if len(history_data) >= 7 else history_data
Recent7d(rows) == IF Len(rows) >= 7 THEN SubSeq(rows, 1, 7) ELSE rows

\* sum(s[lo..hi]), summed by halves (the exact sum does not depend on the order)
RECURSIVE RSumRange(_, _, _)
RSumRange(s, lo, hi) ==
    IF lo > hi THEN Rat(0)
    ELSE IF lo = hi THEN s[lo]
    ELSE LET mid == (lo + hi) \div 2
         IN  RAdd(RSumRange(s, lo, mid), RSumRange(s, mid + 1, hi))

\* sum(float(d[key] or 0) for d in rows)
FieldSum(rows, key) ==
    RSumRange([i \in 1..Len(rows) |-> FloatOr0(rows[i][key])], 1, Len(rows))

\* 1. the main-inflow score, of 40
InflowScore(main_net_inflow_7d) ==
    IF RLt(Rat(100000000), main_net_inflow_7d) THEN 40
    ELSE IF RLt(Rat(50000000), main_net_inflow_7d) THEN 30
    ELSE IF RLt(Rat(0), main_net_inflow_7d) THEN 20
    ELSE 0

\* (a variant that counts the days of inflow among all of recent_7d)
InflowDaysOfSeven(recent_7d) ==
    Cardinality({i \in 1..Len(recent_7d) :
                    RLt(Rat(0), FloatOr0(recent_7d[i].main_net_inflow))})

\* consecutive_inflow_days: the days of inflow among recent_7d[:3]
ConsecutiveInflowDays(recent_7d) ==
    Cardinality({i \in 1..3 : RLt(Rat(0), FloatOr0(recent_7d[i].main_net_inflow))})

\* inflows[0] > inflows[1] > inflows[2] and all(i > 0 for i in inflows)
IsAccelerating(recent_7d) ==
    LET inflows == [i \in 1..3 |-> FloatOr0(recent_7d[i].main_net_inflow)]
    IN  /\ RLt(inflows[2], inflows[1])
        /\ RLt(inflows[3], inflows[2])
        /\ \A i \in 1..3 : RLt(Rat(0), inflows[i])

\* 2. the inflow-trend score, of 30
TrendScore(recent_7d) ==
    IF Len(recent_7d) >= 3
    THEN IF IsAccelerating(recent_7d) THEN 30
         ELSE IF ConsecutiveInflowDays(recent_7d) >= 3 THEN 25
         ELSE IF ConsecutiveInflowDays(recent_7d) >= 2 THEN 15
         ELSE 5
    ELSE 10

\* 3. the price score, of 20
PriceScore(recent_7d) ==
    IF recent_7d # <<>>
    THEN LET avg_change == RDiv(FieldSum(recent_7d, "change_percent"),
                                Rat(Len(recent_7d)))
         IN  IF RLt(Rat(3), avg_change) THEN 20
             ELSE IF RLt(Rat(1), avg_change) THEN 15
             ELSE IF RLt(Rat(0), avg_change) THEN 10
             ELSE 5
    ELSE 10

\* 4. the turnover score, of 10
TurnoverScore(recent_7d) ==
    IF recent_7d # <<>>
    THEN LET avg_turnover == RDiv(FieldSum(recent_7d, "turnover_rate"),
                                  Rat(Len(recent_7d)))
         IN  IF RLt(Rat(5), avg_turnover) THEN 10
             ELSE IF RLt(Rat(3), avg_turnover) THEN 7
             ELSE IF RLt(Rat(1), avg_turnover) THEN 5
             ELSE 2
    ELSE 5

\* (a variant that leaves the turnover score out of the total)
TotalScoreWithoutTurnover(inflow_score, trend_score, price_score, turnover_score) ==
    inflow_score + trend_score + price_score

\* total_score = inflow_score + trend_score + price_score + turnover_score
TotalScore(inflow_score, trend_score, price_score, turnover_score) ==
    inflow_score + trend_score + price_score + turnover_score

TrendDirection(main_net_inflow_7d) ==
    IF RLt(Rat(50000000), main_net_inflow_7d) THEN "inflow"
    ELSE IF RLt(main_net_inflow_7d, Rat(-50000000)) THEN "outflow"
    ELSE "stable"

\* the thresholds taken as strict
RiskLevelAbove(total_score) ==
    IF total_score > 80 THEN "low"
    ELSE IF total_score > 60 THEN "medium"
    ELSE "high"

RiskLevel(total_score) ==
    IF total_score >= 80 THEN "low"
    ELSE IF total_score >= 60 THEN "medium"
    ELSE "high"

\* the dict returned for the rows history_data, past the empty-history check
\* (total_score is an int, and round(total_score, 2) of an int is that int)
Scored(rows) ==
    LET recent_7d == Recent7d(rows)
        main_net_inflow_7d == FieldSum(recent_7d, "main_net_inflow")
        main_net_inflow_30d == FieldSum(rows, "main_net_inflow")
        inflow_score == InflowScore(main_net_inflow_7d)
        trend_score == TrendScore(recent_7d)
        price_score == PriceScore(recent_7d)
        turnover_score == TurnoverScore(recent_7d)
        total_score == TotalScore(inflow_score, trend_score, price_score,
                                  turnover_score)
    IN  [health_score |-> total_score,
         trend_direction |-> TrendDirection(main_net_inflow_7d),
         risk_level |-> RiskLevel(total_score),
         main_net_inflow_7d |-> main_net_inflow_7d,
         main_net_inflow_30d |-> main_net_inflow_30d,
         score_details |-> [inflow_score |-> inflow_score,
                            trend_score |-> trend_score,
                            price_score |-> price_score,
                            turnover_score |-> turnover_score,
                            main_net_inflow_7d |-> main_net_inflow_7d,
                            main_net_inflow_30d |-> main_net_inflow_30d]]

\* (a variant without the empty-history check: the scores of no rows)
NoHistoryScored == Scored(<<>>)

\* the dict returned when storage has no row
NoHistoryResult ==
    [health_score |-> 0, trend_direction |-> "unknown", risk_level |-> "high",
     message |-> "no history data"]

\* the dict returned by the except branch
FailedResult ==
    [health_score |-> 0, trend_direction |-> "unknown", risk_level |-> "high",
     message |-> "calculation failed"]

\* calculate_health_score over the stored rows; fetch_fails: execute_query raises
calculate_health_score(rows, fetch_fails) ==
    IF fetch_fails THEN FailedResult
    ELSE LET fetched == QueryHistory(rows)
         IN  IF fetched = <<>> THEN NoHistoryResult ELSE Scored(fetched)

----------------------------------------------------------------------------
(* HealthCalculator.update_health_score *)

\* secid.split('.') does not give two parts
SplitFails(id) == id = "600000"

\* int(market_code) raises ValueError
IntFails(id) == id = "sh.600000"

\* health_data.get(key, default)
Get(d, key, default) == IF key \in DOMAIN d THEN d[key] ELSE default

\* the row update_health_score writes
HealthRow(id, health_data) ==
    [secid |-> id,
     health_score |-> health_data.health_score,
     score_details |-> Get(health_data, "score_details", <<>>),
     main_net_inflow_7d |-> Get(health_data, "main_net_inflow_7d", Rat(0)),
     main_net_inflow_30d |-> Get(health_data, "main_net_inflow_30d", Rat(0)),
     trend_direction |-> Get(health_data, "trend_direction", "unknown"),
     risk_level |-> Get(health_data, "risk_level", "high")]

\* INSERT ... ON DUPLICATE KEY UPDATE, the key being the security (and the date)
Upsert(table, row) == {r \in table : r.secid # row.secid} \cup {row}

----------------------------------------------------------------------------
(* The inputs of the HealthCalculator calls *)

HistoryRow(inflow, change, turnover) ==
    [main_net_inflow |-> inflow, change_percent |-> change, turnover_rate |-> turnover]

\* the daily rows the histories are built from: a strong, a fair and a weak
\* day of inflow, a day of outflow, and a day with absent values
HistoryRows ==
    { HistoryRow(Rat(60000000), Rat(4), Rat(6)),
      HistoryRow(Rat(30000000), Rat(2), Rat(4)),
      HistoryRow(Rat(10000000), <<1, 2>>, Rat(2)),
      HistoryRow(Rat(-60000000), Rat(-2), <<1, 2>>),
      HistoryRow(None, None, None) }

\* eight days whose eighth (outside recent_7d) is the only day of inflow
WeekOfOutflow ==
    [i \in 1..8 |->
        IF i <= 7 THEN HistoryRow(Rat(-60000000), Rat(-2), <<1, 2>>)
        ELSE HistoryRow(Rat(60000000), Rat(4), Rat(6))]

\* 31 stored days (one more than the query returns) alternating weak and fair
MonthOfInflow ==
    [i \in 1..31 |->
        IF i % 2 = 1 THEN HistoryRow(Rat(10000000), <<1, 2>>, Rat(2))
        ELSE HistoryRow(Rat(30000000), Rat(2), Rat(4))]

Histories ==
    UNION {[1..n -> HistoryRows] : n \in 0..MaxHist}
    \cup {WeekOfOutflow, MonthOfInflow}

\* a well-formed secid, one without a dot, one whose market code is no number
Secids == {"1.600000", "600000", "sh.600000"}

----------------------------------------------------------------------------
(* The state machine of the HealthCalculator: one call on one history *)

\* no indicator call
IndicatorsIdle ==
    /\ data = <<>>
    /\ op = "none"
    /\ params = <<>>
    /\ result = <<>>
    /\ exc = FALSE
    /\ calls = <<>>
    /\ caught = {}
    /\ rsv_values = <<>>

InitHealth ==
    /\ history_data \in Histories
    /\ hop = "none"
    /\ secid = ""
    /\ health = <<>>
    /\ hraised = FALSE
    /\ storage_fails = {}
    /\ health_table = {}
    /\ IndicatorsIdle
    /\ RecommendIdle
    /\ SaveIdle
    /\ CacheIdle

\* calculate_health_score(secid, score_date); storage may raise on the query
HealthScore ==
    /\ hop = "none"
    /\ \E id \in Secids, fetch_fails \in BOOLEAN :
        /\ hop' = "score"
        /\ secid' = id
        /\ health' = calculate_health_score(history_data, fetch_fails)
        /\ storage_fails' = IF fetch_fails THEN {"fetch"} ELSE {}
    /\ hraised' = FALSE
    /\ UNCHANGED <<history_data, health_table>>
    /\ UNCHANGED <<ivars, rvars, svars, cvars>>

\* update_health_score(secid, score_date); storage may raise on the query and
\* on the update
HealthUpdate ==
    /\ hop = "none"
    /\ \E id \in Secids, fetch_fails \in BOOLEAN, persist_fails \in BOOLEAN :
        LET health_data == calculate_health_score(history_data, fetch_fails)
            returns_early == SplitFails(id)
            int_raises == ~returns_early /\ IntFails(id)
            executes == ~returns_early /\ ~int_raises
        IN  /\ hop' = "update"
            /\ secid' = id
            /\ health' = health_data
            /\ hraised' = int_raises
            /\ storage_fails' = (IF fetch_fails THEN {"fetch"} ELSE {})
                                \cup (IF executes /\ persist_fails
                                      THEN {"persist"} ELSE {})
            /\ health_table' = IF executes /\ ~persist_fails
                               THEN Upsert(health_table, HealthRow(id, health_data))
                               ELSE health_table
    /\ UNCHANGED history_data
    /\ UNCHANGED <<ivars, rvars, svars, cvars>>

NextHealth == HealthScore \/ HealthUpdate

SpecHealth == InitHealth /\ [][NextHealth]_vars

----------------------------------------------------------------------------
(* RecommendationCalculator.calculate_recommendations *)

\* the most securities in the markets built from every choice of profiles
MaxStocks == 2

\* min_trade_days = max(6, int(days * 0.6)), for days >= 0
MinTradeDays(days) == IF (days * 6) \div 10 > 6 THEN (days * 6) \div 10 ELSE 6

\* the rows of a security with trade_date in [recommend_date - days,
\* recommend_date], newest first; age is recommend_date - trade_date in days
WindowRows(rows, days) == SelectSeq(rows, LAMBDA r : r.age >= 0 /\ r.age <= days)

\* sql_stocks: the active securities with at least min_trade_days distinct
\* trade dates in the window (a security has one row per trade date)
StocksQuery(stocks, days, min_trade_days) ==
    SelectSeq(stocks, LAMBDA st :
        /\ st.is_active
        /\ Len(WindowRows(st.history, days)) >= 1
        /\ Len(WindowRows(st.history, days)) >= min_trade_days)

\* [to_float(d.get(key, 0)) for d in history]
Floats(history, key) == [i \in 1..Len(history) |-> to_float(history[i][key])]

\* variance = sum((x - avg_change) ** 2 for x in changes) / len(changes) when
\* there is more than one change, and 0 (the square of volatility = 0) otherwise
Variance(changes) ==
    IF Len(changes) > 1
    THEN LET avg_change == RDiv(RSumRange(changes, 1, Len(changes)), Rat(Len(changes)))
             squares == [i \in 1..Len(changes) |->
                            RMul(RSub(changes[i], avg_change),
                                 RSub(changes[i], avg_change))]
         IN  RDiv(RSumRange(squares, 1, Len(squares)), Rat(Len(changes)))
    ELSE Rat(0)

\* the metrics of one security over its history in the window; volatility is
\* variance ** 0.5, kept here as its square: volatility > c iff
\* volatility_sq > c * c for c >= 0
Metrics(history) ==
    LET changes == Floats(history, "change_percent")
    IN  [total_main_inflow |-> RSumRange(Floats(history, "main_net_inflow"),
                                         1, Len(history)),
         total_small_inflow |-> RSumRange(Floats(history, "small_net_inflow"),
                                          1, Len(history)),
         max_change |-> IF changes # <<>> THEN RMax(changes) ELSE Rat(0),
         min_change |-> IF changes # <<>> THEN RMin(changes) ELSE Rat(0),
         volatility_sq |-> Variance(changes),
         current_price |-> IF history # <<>> THEN to_float(history[1].close_price)
                           ELSE Rat(0),
         change_percent |-> IF history # <<>> THEN to_float(history[1].change_percent)
                            ELSE Rat(0)]

\* (a variant whose ceiling on the main inflow is inclusive)
PassesFilterCeilingInclusive(m) ==
    /\ RLe(Rat(50000000), m.total_main_inflow)
    /\ RLe(m.total_main_inflow, Rat(500000000))
    /\ RLe(Rat(-8), m.max_change) /\ RLe(m.max_change, Rat(8))
    /\ RLe(Rat(-8), m.min_change) /\ RLe(m.min_change, Rat(8))
    /\ RLt(m.total_small_inflow, Rat(0))
    /\ RLt(Rat(1), m.volatility_sq)
    /\ RLt(Rat(0), m.current_price) /\ RLt(m.current_price, Rat(100))

\* the filter condition of lines 107-111
PassesFilter(m) ==
    /\ RLe(Rat(50000000), m.total_main_inflow)
    /\ RLt(m.total_main_inflow, Rat(500000000))
    /\ RLe(Rat(-8), m.max_change) /\ RLe(m.max_change, Rat(8))
    /\ RLe(Rat(-8), m.min_change) /\ RLe(m.min_change, Rat(8))
    /\ RLt(m.total_small_inflow, Rat(0))
    /\ RLt(Rat(1), m.volatility_sq)
    /\ RLt(Rat(0), m.current_price) /\ RLt(m.current_price, Rat(100))

\* reasons, in the order they are appended
Reasons(m) ==
    (IF RLt(Rat(100000000), m.total_main_inflow) THEN <<"steady build-up">> ELSE <<>>)
    \o (IF RLt(Rat(4), m.volatility_sq) THEN <<"shake-out">> ELSE <<>>)
    \o (IF RLt(m.total_small_inflow, Rat(-10000000)) THEN <<"retail exit">> ELSE <<>>)
    \o (IF RLt(Rat(200000000), m.total_main_inflow) THEN <<"clear inflow">> ELSE <<>>)

\* the dict appended to result for a security that passes
Entry(stock, m) ==
    [secid |-> stock.secid,
     current_price |-> m.current_price,
     change_percent |-> m.change_percent,
     total_main_inflow_10d |-> m.total_main_inflow,
     total_small_inflow_10d |-> m.total_small_inflow,
     volatility_sq |-> m.volatility_sq,
     max_change |-> m.max_change,
     min_change |-> m.min_change,
     recommend_reasons |-> Reasons(m)]

\* result after the loop has handled the first upto securities of stocks
RECURSIVE Collected(_, _, _, _)
Collected(stocks, days, min_trade_days, upto) ==
    IF upto = 0 THEN <<>>
    ELSE LET before == Collected(stocks, days, min_trade_days, upto - 1)
             history == WindowRows(stocks[upto].history, days)
         IN  IF Len(history) < min_trade_days THEN before
             ELSE IF PassesFilter(Metrics(history))
                  THEN Append(before, Entry(stocks[upto], Metrics(history)))
                  ELSE before

\* (a variant that sorts ascending)
RECURSIVE InsertByInflowAscending(_, _)
InsertByInflowAscending(s, e) ==
    IF s = <<>> THEN <<e>>
    ELSE IF RLe(s[Len(s)].total_main_inflow_10d, e.total_main_inflow_10d)
         THEN Append(s, e)
         ELSE Append(InsertByInflowAscending(SubSeq(s, 1, Len(s) - 1), e), s[Len(s)])

\* stable insertion of entry e into the list s sorted by descending
\* total_main_inflow_10d
RECURSIVE InsertByInflow(_, _)
InsertByInflow(s, e) ==
    IF s = <<>> THEN <<e>>
    ELSE IF RLe(e.total_main_inflow_10d, s[Len(s)].total_main_inflow_10d)
         THEN Append(s, e)
         ELSE Append(InsertByInflow(SubSeq(s, 1, Len(s) - 1), e), s[Len(s)])

\* result.sort(key=lambda x: x['total_main_inflow_10d'], reverse=True)
RECURSIVE SortByInflow(_)
SortByInflow(s) ==
    IF s = <<>> THEN <<>>
    ELSE InsertByInflow(SortByInflow(SubSeq(s, 1, Len(s) - 1)), s[Len(s)])

\* result[:limit]
Slice(s, limit) ==
    IF limit >= 0 THEN SubSeq(s, 1, IF limit < Len(s) THEN limit ELSE Len(s))
    ELSE SubSeq(s, 1, IF Len(s) + limit > 0 THEN Len(s) + limit ELSE 0)

calculate_recommendations(stocks, days, limit) ==
    LET min_trade_days == MinTradeDays(days)
        found == StocksQuery(stocks, days, min_trade_days)
    IN  Slice(SortByInflow(Collected(found, days, min_trade_days, Len(found))), limit)

----------------------------------------------------------------------------
(* The inputs of the RecommendationCalculator calls *)

\* the days before recommend_date of a security's stored rows: six trading
\* days within 10 days and a seventh within 11
Ages == <<0, 1, 2, 3, 4, 7, 11>>

\* a thinly traded security: five trading days within 10 days, six within 11
FewAges == <<0, 1, 2, 3, 4, 11, 12>>

\* a history, newest first: main inflow main a day (extra more on the latest
\* day), small inflow small a day, change +swing and -swing in turn, the
\* latest close price and older closes of 150
FlowHistory(ages, main, extra, small, swing, price) ==
    [i \in 1..Len(ages) |->
        [age |-> ages[i],
         main_net_inflow |-> IF i = 1 THEN Rat(main + extra) ELSE Rat(main),
         small_net_inflow |-> small,
         change_percent |-> IF i % 2 = 1 THEN Rat(swing) ELSE Rat(-swing),
         close_price |-> IF i = 1 THEN price ELSE Rat(150)]]

Profile(active, history) == [is_active |-> active, history |-> history]

\* the securities the markets are built from: three that pass within 10 days
\* (60M, 120M and exactly 50M of main inflow), one that passes only within 11
\* days (48M, then 56M), and one security for each way of failing the filter
\* (500M, 600M, a swing of 1, a swing of 9, no small outflow, a price of 100,
\* no price) or the candidate query (too few days, inactive)
ProfileList ==
    << Profile(TRUE, FlowHistory(Ages, 10000000, 0, Rat(-2000000), 2, Rat(50))),
       Profile(TRUE, FlowHistory(Ages, 20000000, 0, Rat(-2000000), 2, Rat(50))),
       Profile(TRUE, FlowHistory(Ages, 8000000, 2000000, Rat(-2000000), 2, Rat(50))),
       Profile(TRUE, FlowHistory(Ages, 8000000, 0, Rat(-2000000), 2, Rat(50))),
       Profile(TRUE, FlowHistory(Ages, 80000000, 20000000, Rat(-2000000), 2, Rat(50))),
       Profile(TRUE, FlowHistory(Ages, 100000000, 0, Rat(-2000000), 2, Rat(50))),
       Profile(TRUE, FlowHistory(Ages, 10000000, 0, Rat(-2000000), 1, Rat(50))),
       Profile(TRUE, FlowHistory(Ages, 10000000, 0, Rat(-2000000), 9, Rat(50))),
       Profile(TRUE, FlowHistory(Ages, 10000000, 0, None, 2, Rat(50))),
       Profile(TRUE, FlowHistory(Ages, 10000000, 0, Rat(-2000000), 2, Rat(100))),
       Profile(TRUE, FlowHistory(Ages, 10000000, 0, Rat(-2000000), 2, None)),
       Profile(TRUE, FlowHistory(FewAges, 20000000, 0, Rat(-2000000), 2, Rat(50))),
       Profile(FALSE, FlowHistory(Ages, 20000000, 0, Rat(-2000000), 2, Rat(50))) >>

Profiles == {ProfileList[i] : i \in 1..Len(ProfileList)}

Secid(i) ==
    <<"S01", "S02", "S03", "S04", "S05", "S06", "S07", "S08", "S09", "S10",
      "S11", "S12", "S13">>[i]

\* the stored securities with the profiles ps, in the order the candidate
\* query returns them
Stocks(ps) ==
    [i \in 1..Len(ps) |->
        [secid |-> Secid(i), is_active |-> ps[i].is_active, history |-> ps[i].history]]

\* a market with every profile, and the same with the profiles in reverse order
WholeMarket == Stocks(ProfileList)

WholeMarketReversed ==
    Stocks([i \in 1..Len(ProfileList) |-> ProfileList[Len(ProfileList) + 1 - i]])

Markets ==
    {Stocks(ps) : ps \in UNION {[1..n -> Profiles] : n \in 0..MaxStocks}}
    \cup {WholeMarket, WholeMarketReversed}

\* the days and limit arguments (10 and 10 are the defaults)
DaysSet == {10, 11}

LimitSet == {0, 1, 2, 10}

----------------------------------------------------------------------------
(* The state machine of the RecommendationCalculator: one call on one market *)

InitRecommend ==
    /\ market \in Markets
    /\ rop = "none"
    /\ rargs = <<>>
    /\ recommendations = <<>>
    /\ rraised = FALSE
    /\ IndicatorsIdle
    /\ HealthIdle
    /\ SaveIdle
    /\ CacheIdle

\* calculate_recommendations(recommend_date, days, limit); storage may raise
\* on a query, and the exception then reaches the caller
CalcRecommendations ==
    /\ rop = "none"
    /\ \E days \in DaysSet, limit \in LimitSet, query_fails \in BOOLEAN :
        /\ rop' = "calculate"
        /\ rargs' = <<days, limit>>
        /\ rraised' = query_fails
        /\ recommendations' = IF query_fails THEN <<>>
                              ELSE calculate_recommendations(market, days, limit)
    /\ UNCHANGED market
    /\ UNCHANGED <<ivars, hvars, svars, cvars>>

NextRecommend == CalcRecommendations

SpecRecommend == InitRecommend /\ [][NextRecommend]_vars

----------------------------------------------------------------------------
(* save_recommendations, step by step, and the readers of its table.  Each   *)
(* db.execute_update and db.execute_query is a transaction of its own,      *)
(* committed before it returns, so other connections see the table between   *)
(* any two of them.                                                          *)

\* recommend_date of the runs (date.today()), and an earlier day
Today == "2024-05-21"

Yesterday == "2024-05-20"

Dates == {Today, Yesterday}

\* json.dumps(rec['recommend_reasons']) and the reader's json.loads
JsonDumps(reasons) == <<"json", reasons>>

JsonLoads(text) == IF Len(text) = 2 /\ text[1] = "json" THEN text[2] ELSE <<>>

\* the row the INSERT of the loop writes for recommendations[idx]
RowOf(recommend_date, rec, idx) ==
    [recommend_date |-> recommend_date,
     secid |-> rec.secid,
     current_price |-> rec.current_price,
     change_percent |-> rec.change_percent,
     total_main_inflow_10d |-> rec.total_main_inflow_10d,
     total_small_inflow_10d |-> rec.total_small_inflow_10d,
     volatility_sq |-> rec.volatility_sq,
     max_change |-> rec.max_change,
     min_change |-> rec.min_change,
     recommend_reasons |-> JsonDumps(rec.recommend_reasons),
     sort_order |-> idx + 1]

\* the rows a complete run writes for a list of recommendations
RowsOf(recommend_date, recs) ==
    [i \in 1..Len(recs) |-> RowOf(recommend_date, recs[i], i - 1)]

RECURSIVE SelectWhere(_, _, _)
\* the rows of the table on or off a date, in table order
SelectWhere(table, recommend_date, on) ==
    IF table = <<>> THEN <<>>
    ELSE LET rest == SelectWhere(Tail(table), recommend_date, on)
         IN  IF (Head(table).recommend_date = recommend_date) = on
             THEN <<Head(table)>> \o rest
             ELSE rest

\* a DELETE that lost its WHERE clause
DeleteEveryDate(table, recommend_date) == <<>>

\* DELETE FROM recommended_stocks WHERE recommend_date = %s
DeleteByDate(table, recommend_date) == SelectWhere(table, recommend_date, FALSE)

\* the table declares no key that an INSERT of the loop could violate
KeyViolated(table, row) == FALSE

\* INSERT INTO recommended_stocks (...) VALUES (...)
InsertRow(table, row) == Append(table, row)

RECURSIVE InsertBySortOrder(_, _)
InsertBySortOrder(sorted, row) ==
    IF sorted = <<>> THEN <<row>>
    ELSE IF row.sort_order < Head(sorted).sort_order
         THEN <<row>> \o sorted
         ELSE <<Head(sorted)>> \o InsertBySortOrder(Tail(sorted), row)

RECURSIVE OrderBySortOrder(_)
\* ORDER BY sort_order ASC (rows of equal sort_order in table order)
OrderBySortOrder(rows) ==
    IF rows = <<>> THEN <<>>
    ELSE InsertBySortOrder(OrderBySortOrder(SubSeq(rows, 1, Len(rows) - 1)),
                           rows[Len(rows)])

\* SELECT ... WHERE recommend_date = %s ORDER BY sort_order ASC
SelectShortlist(table, recommend_date) ==
    OrderBySortOrder(SelectWhere(table, recommend_date, TRUE))

\* an item of the reader's result list
ResponseItem(rec) ==
    [recommend_date |-> rec.recommend_date,
     secid |-> rec.secid,
     latest_price |-> FloatOr0(rec.current_price),
     latest_change |-> FloatOr0(rec.change_percent),
     total_main_inflow_10d |-> FloatOr0(rec.total_main_inflow_10d),
     total_small_inflow_10d |-> FloatOr0(rec.total_small_inflow_10d),
     volatility_sq |-> FloatOr0(rec.volatility_sq),
     max_change |-> FloatOr0(rec.max_change),
     min_change |-> FloatOr0(rec.min_change),
     reasons |-> JsonLoads(rec.recommend_reasons)]

\* the body of GET /api/recommendations/stocks?date=...
ResponseOf(rows) ==
    [code |-> 0, data |-> [i \in 1..Len(rows) |-> ResponseItem(rows[i])]]

ErrorResponse == [code |-> -1, data |-> <<>>]

\* the states of a run between its first and its last storage call
Running == {"deleted", "inserting"}

\* the markets the runs calculate over
SaveMarkets == {WholeMarket, <<>>}

SaveDays == {10}

SaveLimits == {2, 10}

\* rows an earlier day's run left in the table
YesterdayRows == RowsOf(Yesterday, calculate_recommendations(WholeMarket, 10, 2))

\* rows an earlier run of today left in the table
EarlierRows == RowsOf(Today, calculate_recommendations(WholeMarket, 12, 10))

StoredTables == {YesterdayRows, YesterdayRows \o EarlierRows}

InitSave ==
    /\ market \in SaveMarkets
    /\ rop = "none"
    /\ rargs = <<>>
    /\ recommendations = <<>>
    /\ rraised = FALSE
    /\ recommended_stocks \in StoredTables
    /\ spc = [p \in Savers |-> "idle"]
    /\ sargs = [p \in Savers |-> <<>>]
    /\ srecs = [p \in Savers |-> <<>>]
    /\ sidx = [p \in Savers |-> 0]
    /\ prior = [p \in Savers |-> <<>>]
    /\ alone = [p \in Savers |-> TRUE]
    /\ response = <<>>
    /\ response_run = "none"
    /\ IndicatorsIdle
    /\ HealthIdle
    /\ CacheIdle

\* save_recommendations up to its DELETE; the DELETE may raise, and the
\* exception leaves save_recommendations
SaveDelete(p) ==
    /\ spc[p] = "idle"
    /\ \E days \in SaveDays, limit \in SaveLimits, fails \in BOOLEAN :
        /\ sargs' = [sargs EXCEPT ![p] = <<days, limit>>]
        /\ prior' = [prior EXCEPT ![p] = SelectShortlist(recommended_stocks, Today)]
        /\ IF fails
           THEN /\ spc' = [spc EXCEPT ![p] = "raised"]
                /\ UNCHANGED recommended_stocks
                /\ alone' = [alone EXCEPT
                               ![p] = \A q \in Savers \ {p} : spc[q] \notin Running]
           ELSE /\ spc' = [spc EXCEPT ![p] = "deleted"]
                /\ recommended_stocks' = DeleteByDate(recommended_stocks, Today)
                /\ alone' = [q \in Savers |->
                               IF q = p
                               THEN \A r \in Savers \ {p} : spc[r] \notin Running
                               ELSE alone[q] /\ spc[q] = "idle"]
    /\ UNCHANGED <<srecs, sidx, response, response_run>>
    /\ UNCHANGED <<ivars, hvars, rvars, cvars>>

\* the call of calculate_recommendations and the test of its result; a query
\* of the calculation may raise
SaveCalculate(p) ==
    /\ spc[p] = "deleted"
    /\ \/ /\ spc' = [spc EXCEPT ![p] = "raised"]
          /\ UNCHANGED srecs
       \/ \E recs \in {calculate_recommendations(market, sargs[p][1], sargs[p][2])} :
             /\ srecs' = [srecs EXCEPT ![p] = recs]
             /\ spc' = [spc EXCEPT ![p] = IF recs = <<>> THEN "done"
                                          ELSE "inserting"]
    /\ UNCHANGED <<recommended_stocks, sargs, sidx, prior, alone,
                   response, response_run>>
    /\ UNCHANGED <<ivars, hvars, rvars, cvars>>

\* one round of the loop: the INSERT of recommendations[idx]
SaveInsert(p) ==
    /\ spc[p] = "inserting"
    /\ \E fails \in BOOLEAN :
        LET row == RowOf(Today, srecs[p][sidx[p] + 1], sidx[p])
        IN  IF fails \/ KeyViolated(recommended_stocks, row)
            THEN /\ spc' = [spc EXCEPT ![p] = "raised"]
                 /\ UNCHANGED <<recommended_stocks, sidx>>
            ELSE /\ recommended_stocks' = InsertRow(recommended_stocks, row)
                 /\ sidx' = [sidx EXCEPT ![p] = sidx[p] + 1]
                 /\ spc' = [spc EXCEPT ![p] = IF sidx[p] + 1 = Len(srecs[p])
                                              THEN "done" ELSE "inserting"]
    /\ UNCHANGED <<sargs, srecs, prior, alone, response, response_run>>
    /\ UNCHANGED <<ivars, hvars, rvars, cvars>>

\* GET /api/recommendations/stocks: one SELECT, or the error response when
\* the query raises
GetRecommendedStocks ==
    /\ \E recommend_date \in Dates, fails \in BOOLEAN :
        /\ response' = IF fails THEN ErrorResponse
                       ELSE ResponseOf(SelectShortlist(recommended_stocks,
                                                       recommend_date))
        /\ response_run' =
             IF ~fails /\ recommend_date = Today
                /\ \E p \in Savers : spc[p] \in Running /\ alone[p]
             THEN CHOOSE p \in Savers : spc[p] \in Running /\ alone[p]
             ELSE "none"
    /\ UNCHANGED <<recommended_stocks, spc, sargs, srecs, sidx, prior, alone>>
    /\ UNCHANGED <<ivars, hvars, rvars, cvars>>

NextSave ==
    \/ \E p \in Savers : SaveDelete(p)
    \/ \E p \in Savers : SaveCalculate(p)
    \/ \E p \in Savers : SaveInsert(p)
    \/ GetRecommendedStocks

SpecSave == InitSave /\ [][NextSave]_vars

----------------------------------------------------------------------------
(* GET /api/realtime/index and its cache, api_server._index_cache *)

\* _index_cache['ttl']
Ttl == 300

\* the latest time the clock of the model shows
MaxClock == 320

\* the seconds that pass between two observations of the clock
TickSteps == {10, 290}

\* the seconds get_index_data takes (its request has a timeout of 30)
FetchSeconds == {0, 10}

\* what get_index_data returns: the list of indices, or [] when the request
\* failed or was refused
IndexFeeds ==
    { <<>>,
      <<[secid |-> "1.000001", current_value |-> Rat(3000)]>>,
      <<[secid |-> "1.000001", current_value |-> Rat(3010)]>> }

\* the validity test with <= for <
CacheValidInclusive(cache, current_time) ==
    /\ cache.data # None
    /\ cache.timestamp # None
    /\ RLe(RSub(current_time, cache.timestamp), Rat(Ttl))

\* the cache validity test of get_realtime_index
CacheValid(cache, current_time) ==
    /\ cache.data # None
    /\ cache.timestamp # None
    /\ RLt(RSub(current_time, cache.timestamp), Rat(Ttl))

InitIndex ==
    /\ index_cache = [data |-> None, timestamp |-> None]
    /\ clock = 0
    /\ last_fetch = <<>>
    /\ index_response = <<>>
    /\ IndicatorsIdle
    /\ HealthIdle
    /\ RecommendIdle
    /\ SaveIdle

\* time passes between requests
Tick ==
    /\ \E d \in TickSteps :
        /\ clock + d <= MaxClock
        /\ clock' = clock + d
    /\ UNCHANGED <<index_cache, last_fetch, index_response>>
    /\ UNCHANGED <<ivars, hvars, rvars, svars>>

\* get_realtime_index answering from the cache
ServeCached ==
    /\ CacheValid(index_cache, Rat(clock))
    /\ index_response' = [at |-> clock,
                          body |-> [code |-> 0, data |-> index_cache.data,
                                    cached |-> TRUE]]
    /\ UNCHANGED <<index_cache, clock, last_fetch>>

\* get_realtime_index calling get_index_data, which takes a while, and
\* stamping the cache with the time read before the call
FetchAndStore ==
    /\ ~CacheValid(index_cache, Rat(clock))
    /\ \E index_data \in IndexFeeds, took \in FetchSeconds :
        /\ clock + took <= MaxClock
        /\ clock' = clock + took
        /\ index_cache' = [data |-> index_data, timestamp |-> Rat(clock)]
        /\ last_fetch' = [called |-> clock,
                          stored |-> clock + took,
                          data |-> index_data,
                          previous |-> IF last_fetch = <<>> THEN <<>>
                                       ELSE <<last_fetch.called, last_fetch.stored>>]
        /\ index_response' = [at |-> clock + took,
                              body |-> [code |-> 0, data |-> index_data,
                                        cached |-> FALSE]]

\* GET /api/realtime/index, one request after the other
GetRealtimeIndex ==
    /\ ServeCached \/ FetchAndStore
    /\ UNCHANGED <<ivars, hvars, rvars, svars>>

NextIndex == GetRealtimeIndex \/ Tick

SpecIndex == InitIndex /\ [][NextIndex]_vars

----------------------------------------------------------------------------
(* Vocabulary of the properties *)

Present(f, key) == key \in DOMAIN f /\ f[key] # None

Absent(f, key) == key \notin DOMAIN f \/ f[key] = None

BaseKeys == {"trade_date", "close_price", "high_price", "low_price"}

MacdKeys == {"macd", "macd_signal", "macd_histogram"}

KdjKeys == {"kdj_k", "kdj_d", "kdj_j"}

RsiKeys == {"rsi"}

\* the input frame of the i-th date (the dates of an input are 1..n)
OnDay(i) == data[CHOOSE j \in 1..Len(data) : data[j].trade_date = i]

\* the float of a raw price
FloatOf(v) == IF v = None THEN <<0, 1>> ELSE v

\* frame f carries the base fields of the input frame g unchanged
SameBase(f, g) == \A k \in BaseKeys : k \in DOMAIN f /\ f[k] = g[k]

\* the fewest frames the called indicator needs
MinFrames ==
    CASE op = "macd" -> params[2] + params[3]
      [] op = "kdj" -> params[1]
      [] op = "rsi" -> params[1] + 1
      [] OTHER -> 0

OwnKeys ==
    CASE op = "macd" -> MacdKeys
      [] op = "kdj" -> KdjKeys
      [] op = "rsi" -> RsiKeys
      [] OTHER -> {}

----------------------------------------------------------------------------
(* C1 *)

\* C1: calculate_macd, calculate_kdj and calculate_rsi, called on a non-empty
\* list shorter than the indicator's minimum, return every input frame (same
\* count, same base fields) with the indicator's fields absent.
C1_ShortInputKeepsFrames ==
    (/\ op \in {"macd", "kdj", "rsi"}
     /\ ~exc
     /\ Len(data) >= 1
     /\ Len(data) < MinFrames)
    => /\ Len(result) = Len(data)
       /\ \A i \in 1..Len(result) :
            /\ SameBase(result[i], OnDay(i))
            /\ \A k \in OwnKeys : Absent(result[i], k)

----------------------------------------------------------------------------
(* C2 *)

\* C2: calculate_all_indicators over n >= 1 frames returns n frames, and every
\* indicator whose own minimum length is met (and which did not raise) has its
\* fields attached from its first computable day on, even when another
\* indicator lacks data.
C2_AllKeepsFramesAndAttaches ==
    (op = "all" /\ Len(data) >= 1)
    => /\ Len(result) = Len(data)
       /\ ("kdj" \notin caught /\ Len(data) >= params[2][1])
          => \A i \in params[2][1]..Len(result) :
                \A k \in KdjKeys : Present(result[i], k)
       /\ ("rsi" \notin caught /\ Len(data) >= params[3] + 1)
          => Present(result[Len(result)], "rsi")

----------------------------------------------------------------------------
(* C3 *)

\* the calculation has the frames it needs (calculate_all_indicators' params)
Enough(ind) ==
    CASE ind = "macd" -> Len(data) >= params[1][2] + params[1][3]
      [] ind = "kdj" -> Len(data) >= params[2][1]
      [] ind = "rsi" -> Len(data) >= params[3] + 1

KeysOf(ind) ==
    CASE ind = "macd" -> MacdKeys
      [] ind = "kdj" -> KdjKeys
      [] ind = "rsi" -> RsiKeys

\* the field of the calculation that is present on the last day
LastKey(ind) ==
    CASE ind = "macd" -> "macd"
      [] ind = "kdj" -> "kdj_k"
      [] ind = "rsi" -> "rsi"

Indicators == {"macd", "kdj", "rsi"}

\* C3: when exactly one of the three calculations of calculate_all_indicators
\* raises, the exception does not reach the caller, all three calculations
\* were invoked, every returned frame carries the fields of each calculation
\* that completed with enough data, and when both other calculations have
\* enough data all the frames are returned.
C3_OneFailureIsolated ==
    (op = "all" /\ Cardinality(caught) = 1)
    => /\ ~exc
       /\ calls = <<"macd", "kdj", "rsi">>
       /\ \A ind \in Indicators \ caught :
            Enough(ind) =>
                /\ \A i \in 1..Len(result) : KeysOf(ind) \subseteq DOMAIN result[i]
                /\ result # <<>> => Present(result[Len(result)], LastKey(ind))
       /\ (\A ind \in Indicators \ caught : Enough(ind))
            => /\ Len(result) = Len(data)
               /\ \A i \in 1..Len(result) : SameBase(result[i], OnDay(i))

\* calculate_kdj alone raised, and the frames carry MACD's and RSI's fields
C3_Witness ==
    /\ op = "all"
    /\ caught = {"kdj"}
    /\ Len(data) >= 3
    /\ Len(result) = Len(data)
    /\ Present(result[Len(result)], "macd")
    /\ Present(result[Len(result)], "rsi")
    /\ "kdj_k" \notin DOMAIN result[1]

----------------------------------------------------------------------------
(* C4 *)

\* the prices handed to calculate_ema
EmaInput == [i \in 1..Len(data) |-> FloatOf(data[i].close_price)]

\* C4 as claimed: for period > 0 calculate_ema returns a list as long as its
\* input, all None when the input is shorter than period.
C4_EmaSameLength ==
    (op = "ema" /\ params[1] > 0)
    => /\ Len(result) = Len(EmaInput)
       /\ Len(EmaInput) < params[1] => \A i \in 1..Len(result) : result[i] = None

\* C4, amended: for period > 0 calculate_ema returns a list as long as its
\* input when the input has at least period values, and the empty list when
\* it has fewer.
C4_EmaLengthOrEmpty ==
    (op = "ema" /\ params[1] > 0)
    => IF Len(EmaInput) >= params[1]
       THEN Len(result) = Len(EmaInput)
       ELSE result = <<>>

\* a call with at least one value but fewer than period returned the empty list
C4_Witness ==
    /\ op = "ema"
    /\ Len(EmaInput) >= 1
    /\ Len(EmaInput) < params[1]
    /\ result = <<>>

----------------------------------------------------------------------------
(* C5 *)

\* the mean of the first n values of s
MeanOfFirst(s, n) ==
    LET sum[i \in 0..n] == IF i = 0 THEN <<0, 1>> ELSE RAdd(sum[i - 1], s[i])
    IN  RDiv(sum[n], <<n, 1>>)

\* C5: for len(values) >= period > 0 the output of calculate_ema is None before
\* position period-1, the mean of the first period values at position
\* period-1, and prev + (values[i] - prev) * 2/(period+1) at every later
\* position, prev being the output one position earlier.
C5_EmaRecurrence ==
    (op = "ema" /\ params[1] > 0 /\ Len(EmaInput) >= params[1])
    => /\ Len(result) = Len(EmaInput)
       /\ \A i \in 1..Len(result) :
            /\ i < params[1] => result[i] = None
            /\ i = params[1] => result[i] = MeanOfFirst(EmaInput, params[1])
            /\ i > params[1] =>
                 result[i] = RAdd(result[i - 1],
                                  RMul(RSub(EmaInput[i], result[i - 1]),
                                       RDiv(<<2, 1>>, <<params[1] + 1, 1>>)))

\* an EMA of period >= 2 with a warm-up gap, a seed and a smoothed value that moved
C5_Witness ==
    /\ op = "ema"
    /\ params[1] >= 2
    /\ Len(EmaInput) > params[1]
    /\ Len(result) = Len(EmaInput)
    /\ result[1] = None
    /\ result[Len(result)] # result[Len(result) - 1]

----------------------------------------------------------------------------
(* C6, C7, C8 *)

\* the positions of result whose macd is present, in ascending order
MacdValidPositions == {i \in 1..Len(result) : Present(result[i], "macd")}

\* v_k (k counted from 1): the k-th position with a present macd
ValidPosition(k) ==
    CHOOSE i \in MacdValidPositions :
        Cardinality({j \in MacdValidPositions : j <= i}) = k

\* [macd[v_1], macd[v_2], ...]
CompactedMacd ==
    [k \in 1..Cardinality(MacdValidPositions) |-> result[ValidPosition(k)].macd]

\* C6: with S the EMA(signal) of the compacted present macd values, macd_signal
\* at the k-th frame with a present macd equals S[k]: the compacted signal
\* line is scattered back without any shift.
C6_SignalAligned ==
    (/\ op = "macd"
     /\ ~exc
     /\ result # <<>>
     /\ Cardinality(MacdValidPositions) >= params[3])
    => LET S == calculate_ema(CompactedMacd, params[3])
       IN  \A k \in 1..Len(S) : result[ValidPosition(k)].macd_signal = S[k]

\* C7: for fast <= slow and len(frames) >= slow + signal, macd is present
\* exactly from index slow-1 on, and macd_signal and macd_histogram exactly
\* from index (slow-1) + (signal-1) on (positions here are counted from 1).
C7_SignalWarmup ==
    (/\ op = "macd"
     /\ ~exc
     /\ params[1] >= 1
     /\ params[1] <= params[2]
     /\ Len(data) >= params[2] + params[3])
    => /\ Len(result) = Len(data)
       /\ \A i \in 1..Len(result) :
            /\ Present(result[i], "macd") <=> i >= params[2]
            /\ Present(result[i], "macd_signal") <=> i >= params[2] + params[3] - 1
            /\ Present(result[i], "macd_histogram") <=> i >= params[2] + params[3] - 1

\* C8: in every frame calculate_macd returns, macd_histogram is present exactly
\* when macd and macd_signal both are, and then equals macd - macd_signal.
C8_HistogramIdentity ==
    (op = "macd" /\ ~exc)
    => \A i \in 1..Len(result) :
         /\ MacdKeys \subseteq DOMAIN result[i]
         /\ Present(result[i], "macd_histogram")
              <=> (Present(result[i], "macd") /\ Present(result[i], "macd_signal"))
         /\ Present(result[i], "macd_histogram")
              => result[i].macd_histogram
                   = RSub(result[i].macd, result[i].macd_signal)

\* a frame with a non-zero histogram, and a frame with macd but no signal
C8_Witness ==
    /\ op = "macd"
    /\ \E i \in 1..Len(result) :
         Present(result[i], "macd_histogram") /\ result[i].macd_histogram # <<0, 1>>
    /\ \E i \in 1..Len(result) :
         Present(result[i], "macd") /\ Absent(result[i], "macd_signal")

----------------------------------------------------------------------------
(* C9 *)

\* the call of the golden case: 40 rising closes, fast=12, slow=26, signal=9
GoldenCall == op = "macd" /\ Len(data) = 40 /\ data = GoldenData /\ params = <<12, 26, 9>>

\* C9 as claimed: in the golden case every present macd is strictly positive
\* and strictly greater than the present macd one index earlier.
C9_GoldenStrictlyIncreasing ==
    GoldenCall
    => \A i \in 1..Len(result) :
         Present(result[i], "macd") =>
            /\ RLt(<<0, 1>>, result[i].macd)
            /\ (i > 1 /\ Present(result[i - 1], "macd"))
                 => RLt(result[i - 1].macd, result[i].macd)

\* C9, amended: in the golden case every present macd is strictly positive and
\* equal to the present macd one index earlier (the values are constant, so
\* non-decreasing but not strictly increasing).
C9_GoldenPositiveConstant ==
    GoldenCall
    => /\ Len(result) = 40
       /\ \A i \in 1..Len(result) :
            Present(result[i], "macd") =>
               /\ RLt(<<0, 1>>, result[i].macd)
               /\ (i > 1 /\ Present(result[i - 1], "macd"))
                    => result[i - 1].macd = result[i].macd

\* the golden call returned its 40 frames, macd present on the last 15
C9_Witness ==
    /\ GoldenCall
    /\ Len(result) = 40
    /\ Absent(result[25], "macd")
    /\ \A i \in 26..40 : Present(result[i], "macd")

----------------------------------------------------------------------------
(* C10 *)

\* the highest high and the lowest low of the rsv_period days ending on day i
WindowDays(i) == (i - params[1] + 1)..i

WindowHigh(i) ==
    CHOOSE h \in {FloatOf(OnDay(j).high_price) : j \in WindowDays(i)} :
        \A j \in WindowDays(i) : RLe(FloatOf(OnDay(j).high_price), h)

WindowLow(i) ==
    CHOOSE l \in {FloatOf(OnDay(j).low_price) : j \in WindowDays(i)} :
        \A j \in WindowDays(i) : RLe(l, FloatOf(OnDay(j).low_price))

\* C10: for every index i >= rsvPeriod-1 the RSV of calculate_kdj is
\* (close[i] - min low) / (max high - min low) * 100 over the window ending at
\* i when the window's max high differs from its min low, and exactly 50 when
\* they are equal; calculate_kdj raises on no list of numeric or absent prices.
C10_RsvFormula ==
    (op = "kdj" /\ Len(data) >= params[1] /\ Len(data) >= 1)
    => IF \E i \in 1..Len(data) : \E k \in BaseKeys \ {"trade_date"} :
              data[i][k] = BadValue
       THEN exc
       ELSE /\ ~exc
            /\ Len(rsv_values) = Len(data)
            /\ \A i \in params[1]..Len(data) :
                 rsv_values[i] =
                    IF WindowHigh(i) = WindowLow(i) THEN <<50, 1>>
                    ELSE RMul(RDiv(RSub(FloatOf(OnDay(i).close_price), WindowLow(i)),
                                   RSub(WindowHigh(i), WindowLow(i))),
                              <<100, 1>>)

\* a call with a flat window of absent prices (RSV 50) and a window with a
\* range, whose RSV is neither 0, 50 nor 100
C10_Witness ==
    /\ op = "kdj"
    /\ ~exc
    /\ params[1] >= 2
    /\ Len(rsv_values) = Len(data)
    /\ \E i \in params[1]..Len(data) :
         /\ \A j \in WindowDays(i) : OnDay(j).high_price = None
         /\ rsv_values[i] = <<50, 1>>
    /\ \E i \in params[1]..Len(data) :
         rsv_values[i] \notin {<<0, 1>>, <<50, 1>>, <<100, 1>>}

----------------------------------------------------------------------------
(* C11 *)

----------------------------------------------------------------------------
(* C12 *)

\* C12 as claimed: calculate_rsi on at least period + 1 frames leaves rsi
\* absent on exactly the first period - 1 frames in date order.
C12_RsiAbsentOnPeriodMinusOne ==
    (op = "rsi" /\ ~exc /\ Len(data) >= params[1] + 1)
    => /\ Len(result) = Len(data)
       /\ \A i \in 1..Len(result) :
            Present(result[i], "rsi") <=> i > params[1] - 1

\* C12, amended: calculate_rsi on at least period + 1 frames leaves rsi absent
\* on exactly the first period frames in date order and present on every
\* other frame.
C12_RsiAbsentOnPeriod ==
    (op = "rsi" /\ ~exc /\ Len(data) >= params[1] + 1)
    => /\ Len(result) = Len(data)
       /\ \A i \in 1..Len(result) :
            /\ "rsi" \in DOMAIN result[i]
            /\ Present(result[i], "rsi") <=> i > params[1]

\* a call of period >= 2 whose period-th frame has no rsi and whose next has
C12_Witness ==
    /\ op = "rsi"
    /\ ~exc
    /\ params[1] >= 2
    /\ Len(data) >= params[1] + 1
    /\ Len(result) = Len(data)
    /\ Absent(result[params[1]], "rsi")
    /\ Present(result[params[1] + 1], "rsi")

----------------------------------------------------------------------------
(* C13 *)

\* C13: every present rsi that calculate_rsi returns lies in [0, 100],
\* whatever the prices (absent ones count as 0) and the period >= 1.
C13_RsiBounds ==
    (op = "rsi" /\ params[1] >= 1)
    => \A i \in 1..Len(result) :
         Present(result[i], "rsi") =>
            /\ RLe(<<0, 1>>, result[i].rsi)
            /\ RLe(result[i].rsi, <<100, 1>>)

\* a call on prices that include an absent one, with an rsi strictly inside
\* the range and an rsi of 0
C13_Witness ==
    /\ op = "rsi"
    /\ \E j \in 1..Len(data) : data[j].close_price = None
    /\ \E i \in 1..Len(result) :
         /\ Present(result[i], "rsi")
         /\ RLt(<<0, 1>>, result[i].rsi)
         /\ RLt(result[i].rsi, <<100, 1>>)
    /\ \E i \in 1..Len(result) :
         Present(result[i], "rsi") /\ result[i].rsi = <<0, 1>>

----------------------------------------------------------------------------
(* C14 *)

\* the close prices of data in date order
ClosesByDate == [i \in 1..Len(data) |-> FloatOf(OnDay(i).close_price)]

\* the smoothed average gain and loss: the EMA(period) of the gains and of
\* the losses of the day-to-day changes
AvgGains == calculate_ema(Gains(Changes(ClosesByDate)), params[1])

AvgLosses == calculate_ema(Losses(Changes(ClosesByDate)), params[1])

\* C14: wherever the smoothed averages exist, rsi is exactly 100 when the
\* average loss is exactly 0 and 100 - 100/(1 + avgGain/avgLoss) otherwise;
\* on 20 frames of strictly increasing closes every present rsi is 100.
C14_RsiFormula ==
    (op = "rsi" /\ ~exc /\ Len(data) >= params[1] + 1)
    => /\ Len(result) = Len(data)
       /\ \A i \in 2..Len(result) :
            AvgLosses[i - 1] # None =>
               result[i].rsi =
                  IF AvgLosses[i - 1] = <<0, 1>> THEN <<100, 1>>
                  ELSE RSub(<<100, 1>>,
                            RDiv(<<100, 1>>,
                                 RAdd(<<1, 1>>,
                                      RDiv(AvgGains[i - 1], AvgLosses[i - 1]))))
       /\ data = RisingData
            => \A i \in 1..Len(result) :
                 Present(result[i], "rsi") => result[i].rsi = <<100, 1>>

\* the call on the 20 rising closes with period 14: rsi present on the last
\* six frames, all 100
C14_RisingWitness ==
    /\ op = "rsi"
    /\ data = RisingData
    /\ params = <<14>>
    /\ Len(result) = 20
    /\ \A i \in 15..20 : Present(result[i], "rsi") /\ result[i].rsi = <<100, 1>>

----------------------------------------------------------------------------
(* C15 *)

\* C15: for every history storage returns, the health_score of
\* calculate_health_score lies in 0..100; whenever the history has a row, the
\* result carries the four sub-scores, they lie in 0..40, 0..30, 0..20 and
\* 0..10, and health_score is their sum.
C15_HealthScoreBounds ==
    (hop = "score" /\ storage_fails = {})
    => /\ health.health_score \in 0..100
       /\ history_data # <<>> =>
            /\ "score_details" \in DOMAIN health
            /\ health.score_details.inflow_score \in 0..40
            /\ health.score_details.trend_score \in 0..30
            /\ health.score_details.price_score \in 0..20
            /\ health.score_details.turnover_score \in 0..10
            /\ health.health_score
                 = health.score_details.inflow_score
                   + health.score_details.trend_score
                   + health.score_details.price_score
                   + health.score_details.turnover_score

\* a scored history with the full inflow and trend scores and a total of at
\* least 80
C15_Witness ==
    /\ hop = "score"
    /\ storage_fails = {}
    /\ history_data # <<>>
    /\ health.score_details.inflow_score = 40
    /\ health.score_details.trend_score = 30
    /\ health.score_details.turnover_score > 0
    /\ health.health_score >= 80

----------------------------------------------------------------------------
(* C16 *)

\* main_net_inflow of the i-th most recent day, as a float
InflowOfDay(i) ==
    IF history_data[i].main_net_inflow = None THEN <<0, 1>>
    ELSE history_data[i].main_net_inflow

\* the three most recent inflows are strictly falling with age and all positive
Accelerating ==
    /\ RLt(InflowOfDay(2), InflowOfDay(1))
    /\ RLt(InflowOfDay(3), InflowOfDay(2))
    /\ \A i \in 1..3 : RLt(<<0, 1>>, InflowOfDay(i))

\* how many of the n most recent days (of those there are) had an inflow > 0
PositiveDays(n) ==
    Cardinality({i \in 1..n : i <= Len(history_data) /\ RLt(<<0, 1>>, InflowOfDay(i))})

\* C16 as claimed: with at least 3 records the trend score is 30 when the
\* three most recent inflows accelerate, else 25 when at least 3 of the (up
\* to) 7 most recent days have main_net_inflow > 0, else 15 when at least 2 of
\* those 7 do, else 5.
C16_TrendOverSevenDays ==
    (hop = "score" /\ storage_fails = {} /\ Len(history_data) >= 3)
    => health.score_details.trend_score
         = IF Accelerating THEN 30
           ELSE IF PositiveDays(7) >= 3 THEN 25
           ELSE IF PositiveDays(7) >= 2 THEN 15
           ELSE 5

\* C16, amended: with at least 3 records the trend score is 30 when the three
\* most recent inflows accelerate, else 25 when all of the 3 most recent days
\* have main_net_inflow > 0, else 15 when 2 of those 3 do, else 5.
C16_TrendOverThreeDays ==
    (hop = "score" /\ storage_fails = {} /\ Len(history_data) >= 3)
    => health.score_details.trend_score
         = IF Accelerating THEN 30
           ELSE IF PositiveDays(3) >= 3 THEN 25
           ELSE IF PositiveDays(3) >= 2 THEN 15
           ELSE 5

\* a history with 3 days of inflow in the last 7 but only 2 in the last 3,
\* scored 15
C16_Witness ==
    /\ hop = "score"
    /\ storage_fails = {}
    /\ Len(history_data) >= 4
    /\ ~Accelerating
    /\ PositiveDays(7) >= 3
    /\ PositiveDays(3) = 2
    /\ health.score_details.trend_score = 15

----------------------------------------------------------------------------
(* C17 *)

\* C17: when storage returns no record, calculate_health_score returns
\* health_score 0, trend_direction "unknown" and risk_level "high" with a
\* message, and does not raise.
C17_EmptyHistory ==
    (hop = "score" /\ storage_fails = {} /\ history_data = <<>>)
    => /\ ~hraised
       /\ health.health_score = 0
       /\ health.trend_direction = "unknown"
       /\ health.risk_level = "high"
       /\ "message" \in DOMAIN health

\* the call on a security without rows returned the degenerate result
C17_Witness ==
    /\ hop = "score"
    /\ storage_fails = {}
    /\ history_data = <<>>
    /\ ~hraised
    /\ health.health_score = 0
    /\ health.message = "no history data"

----------------------------------------------------------------------------
(* C18 *)

\* C18: when storage raises during the history fetch of calculate_health_score
\* or during the persist of update_health_score, the exception reaches the
\* caller of that operation.
C18_StorageFailurePropagates ==
    /\ (hop = "score" /\ "fetch" \in storage_fails) => hraised
    /\ (hop = "update" /\ "persist" \in storage_fails) => hraised

----------------------------------------------------------------------------
(* C19 *)

\* the stored security with the given secid
StockOf(id) == market[CHOOSE i \in 1..Len(market) : market[i].secid = id]

\* the positions of a security's rows that lie in the window of the call
InWindow(st) ==
    {i \in 1..Len(st.history) : st.history[i].age >= 0 /\ st.history[i].age <= rargs[1]}

\* the total of a column over the rows in the window
TotalOf(st, key) ==
    LET sum[i \in 0..Len(st.history)] ==
            IF i = 0 THEN <<0, 1>>
            ELSE IF i \in InWindow(st)
                 THEN RAdd(sum[i - 1], FloatOf(st.history[i][key]))
                 ELSE sum[i - 1]
    IN  sum[Len(st.history)]

\* the mean of the squared distance of change_percent from its mean, over the
\* rows in the window: the square of the volatility
SquaredVolatility(st) ==
    LET n == Cardinality(InWindow(st))
        mean == RDiv(TotalOf(st, "change_percent"), <<n, 1>>)
        dist(i) == RSub(FloatOf(st.history[i].change_percent), mean)
        sum[i \in 0..Len(st.history)] ==
            IF i = 0 THEN <<0, 1>>
            ELSE IF i \in InWindow(st)
                 THEN RAdd(sum[i - 1], RMul(dist(i), dist(i)))
                 ELSE sum[i - 1]
    IN  RDiv(sum[Len(st.history)], <<n, 1>>)

\* the newest row in the window
LatestRow(st) ==
    st.history[CHOOSE i \in InWindow(st) :
                  \A j \in InWindow(st) : st.history[i].age <= st.history[j].age]

\* the inclusion rule, over the records of the security in the window
MeetsRule(st) ==
    /\ InWindow(st) # {}
    /\ RLe(<<50000000, 1>>, TotalOf(st, "main_net_inflow"))
    /\ RLt(TotalOf(st, "main_net_inflow"), <<500000000, 1>>)
    /\ \A i \in InWindow(st) :
         /\ RLe(<<-8, 1>>, FloatOf(st.history[i].change_percent))
         /\ RLe(FloatOf(st.history[i].change_percent), <<8, 1>>)
    /\ RLt(TotalOf(st, "small_net_inflow"), <<0, 1>>)
    /\ RLt(<<1, 1>>, SquaredVolatility(st))
    /\ RLt(<<0, 1>>, FloatOf(LatestRow(st).close_price))
    /\ RLt(FloatOf(LatestRow(st).close_price), <<100, 1>>)

----------------------------------------------------------------------------
(* C20 *)

\* the securities the call evaluates and accepts: active, with at least
\* min_trade_days rows in the window, and meeting the inclusion rule
Qualifying ==
    {i \in 1..Len(market) :
        /\ market[i].is_active
        /\ Cardinality(InWindow(market[i])) >= MinTradeDays(rargs[1])
        /\ MeetsRule(market[i])}

Returned == {recommendations[k].secid : k \in 1..Len(recommendations)}

\* C20: the list calculate_recommendations returns has at most limit entries,
\* is in non-increasing order of main inflow, and is a top-limit selection: it
\* holds min(limit, number of qualifying securities) distinct qualifying
\* securities, and no qualifying security left out has a strictly greater
\* main inflow than a returned entry.
C20_TopLimitDescending ==
    (rop = "calculate" /\ ~rraised)
    => /\ Len(recommendations) <= rargs[2]
       /\ \A k \in 2..Len(recommendations) :
            RLe(recommendations[k].total_main_inflow_10d,
                recommendations[k - 1].total_main_inflow_10d)
       /\ Cardinality(Returned) = Len(recommendations)
       /\ Len(recommendations)
            = IF Cardinality(Qualifying) < rargs[2]
              THEN Cardinality(Qualifying) ELSE rargs[2]
       /\ \A i \in Qualifying :
            market[i].secid \notin Returned
            => \A k \in 1..Len(recommendations) :
                 ~RLt(recommendations[k].total_main_inflow_10d,
                      TotalOf(market[i], "main_net_inflow"))

\* a call with limit 2 on a market with more than 2 qualifying securities
\* stored in ascending order of main inflow: two entries, the greater first
C20_Witness ==
    /\ rop = "calculate"
    /\ ~rraised
    /\ rargs[2] = 2
    /\ Cardinality(Qualifying) > 2
    /\ Len(recommendations) = 2
    /\ RLt(recommendations[2].total_main_inflow_10d,
           recommendations[1].total_main_inflow_10d)
    /\ \E i \in Qualifying, j \in Qualifying :
         /\ i < j
         /\ market[i].secid = recommendations[2].secid
         /\ market[j].secid = recommendations[1].secid

----------------------------------------------------------------------------
(* C21 *)

\* C21: a security is evaluated by calculate_recommendations only if it has
\* at least max(6, windowDays * 0.6) distinct trading days in the window (7
\* for windowDays = 11): every returned security, having been evaluated, has
\* n >= 6 and n >= 0.6 * windowDays rows in the window.
C21_MinTradingDays ==
    (rop = "calculate" /\ ~rraised)
    => \A k \in 1..Len(recommendations) :
         LET n == Cardinality(InWindow(StockOf(recommendations[k].secid)))
         IN  n >= 6 /\ 10 * n >= 6 * rargs[1]

----------------------------------------------------------------------------
(* C22, C23, C24, C29: vocabulary *)

\* the rows recommended_stocks holds for today, as a reader would get them
StoredShortlist == SelectShortlist(recommended_stocks, Today)

\* the complete shortlist the run p is to store
NewShortlist(p) ==
    RowsOf(Today, calculate_recommendations(market, sargs[p][1], sargs[p][2]))

\* the other run
Other(p) == CHOOSE q \in Savers : q # p

----------------------------------------------------------------------------
(* C22 *)

\* C22: a GET /api/recommendations/stocks for the date of a running
\* save_recommendations returns the complete prior shortlist or the complete
\* new one, never an empty or a partial list.
C22_ReaderSeesWholeShortlist ==
    response_run # "none"
    => \/ response = ResponseOf(prior[response_run])
       \/ response = ResponseOf(NewShortlist(response_run))

----------------------------------------------------------------------------
(* C23 *)

\* C23: when a storage call of save_recommendations fails (the DELETE, a
\* query of the calculation or the k-th INSERT), the shortlist stored
\* afterwards is the complete prior one or the complete new one.
C23_FailureLeavesWholeShortlist ==
    \A p \in Savers :
        (spc[p] = "raised" /\ spc[Other(p)] = "idle")
        => \/ StoredShortlist = prior[p]
           \/ StoredShortlist = NewShortlist(p)

----------------------------------------------------------------------------
(* C24 *)

\* what the table holds after the run p
SavedAsComputed(p) ==
    LET rows == SelectWhere(recommended_stocks, Today, TRUE)
        read == StoredShortlist
    IN  /\ Len(rows) = Len(srecs[p])
        /\ SelectWhere(recommended_stocks, Today, FALSE) = YesterdayRows
        /\ \A i \in 1..Len(srecs[p]) :
             /\ Cardinality({k \in 1..Len(rows) :
                               rows[k].secid = srecs[p][i].secid}) = 1
             /\ \A k \in 1..Len(rows) :
                  rows[k].secid = srecs[p][i].secid => rows[k].sort_order = i
        /\ \A i \in 1..Len(read) :
             /\ read[i].sort_order = i
             /\ \A j \in i..Len(read) :
                  RLe(read[j].total_main_inflow_10d, read[i].total_main_inflow_10d)

\* C24: when a save_recommendations run has returned without a failed storage
\* call and no other run has written since it began, the table holds no row of the date if the
\* shortlist is empty, and else exactly len(entries) rows of the date, the
\* i-th entry with sort_order i, the rows of other dates as they were, and a
\* read by ascending sort_order gives descending total_main_inflow_10d.
C24_SaveStoresShortlist ==
    \A p \in Savers : (spc[p] = "done" /\ alone[p]) => SavedAsComputed(p)

\* a run alone replaced a stored shortlist of today by three entries
C24_Witness ==
    \E p \in Savers :
        /\ spc[p] = "done"
        /\ spc[Other(p)] = "idle"
        /\ alone[p]
        /\ prior[p] # <<>>
        /\ Len(srecs[p]) = 3
        /\ StoredShortlist = RowsOf(Today, srecs[p])
        /\ StoredShortlist # prior[p]

----------------------------------------------------------------------------
(* C29 *)

\* C29: once two save_recommendations runs for the same date and the same
\* arguments have both returned, in whatever order their storage calls
\* interleaved, the rows of the date hold each security at most once, are at
\* most limit rows, and have pairwise distinct sort_order.
C29_TwoRunsLeaveOneShortlist ==
    ((\A p \in Savers : spc[p] = "done")
     /\ sargs["scheduler"] = sargs["script"])
    => LET rows == SelectWhere(recommended_stocks, Today, TRUE)
       IN  /\ Len(rows) <= sargs["scheduler"][2]
           /\ \A i, j \in 1..Len(rows) :
                i # j => /\ rows[i].secid # rows[j].secid
                         /\ rows[i].sort_order # rows[j].sort_order

----------------------------------------------------------------------------
(* C25 *)

\* C25: with the default parameters (9, 3, 3) calculate_kdj smooths as its
\* docstring states: after the seed position,
\* K = (2/3) * previous K + (1/3) * RSV and D = (2/3) * previous D + (1/3) * K
\* (so a constant RSV keeps K and D constant).
C25_DocstringSmoothing ==
    (op = "kdj" /\ ~exc /\ params = DefaultKdjParams /\ Len(data) >= params[1])
    => \A i \in (params[1] + 1)..Len(result) :
         /\ result[i].kdj_k
              = RAdd(RMul(<<2, 3>>, result[i - 1].kdj_k),
                     RMul(<<1, 3>>, rsv_values[i]))
         /\ result[i].kdj_d
              = RAdd(RMul(<<2, 3>>, result[i - 1].kdj_d),
                     RMul(<<1, 3>>, result[i].kdj_k))

----------------------------------------------------------------------------
(* C26 *)

\* the frames of data by ascending trade_date
InDateOrder == [i \in 1..Len(data) |-> OnDay(i)]

----------------------------------------------------------------------------
(* C27 *)

\* v lies in [0, 100]
InPercentRange(v) == RLe(Rat(0), v) /\ RLe(v, Rat(100))

\* every frame of data has low <= close <= high
ClosesWithinRange ==
    \A i \in 1..Len(data) :
        /\ RLe(FloatOf(data[i].low_price), FloatOf(data[i].close_price))
        /\ RLe(FloatOf(data[i].close_price), FloatOf(data[i].high_price))

\* C27: when every frame has low <= close <= high and kSmooth >= 2 and
\* dSmooth >= 2, every RSV calculate_kdj computes and every kdj_k and kdj_d it
\* returns lies in [0, 100].
C27_KdjWithinPercentRange ==
    (op = "kdj" /\ ~exc /\ params[2] >= 2 /\ params[3] >= 2 /\ ClosesWithinRange)
    => /\ \A i \in 1..Len(rsv_values) :
            rsv_values[i] # None => InPercentRange(rsv_values[i])
       /\ \A i \in 1..Len(result) :
            /\ Present(result[i], "kdj_k") => InPercentRange(result[i].kdj_k)
            /\ Present(result[i], "kdj_d") => InPercentRange(result[i].kdj_d)

\* closes at the top of the range keep RSV, K and D at 100 under smoothing 2
C27_Witness ==
    /\ op = "kdj"
    /\ ~exc
    /\ data = ClimbingData
    /\ params = <<2, 2, 2>>
    /\ Len(result) = Len(data)
    /\ rsv_values[Len(data)] = Rat(100)
    /\ result[Len(data)].kdj_k = Rat(100)
    /\ result[Len(data)].kdj_d = Rat(100)

----------------------------------------------------------------------------
(* C28 *)

\* the sum of main_net_inflow over the (up to) 7 most recent days
SevenDaySum ==
    LET n == IF Len(history_data) < 7 THEN Len(history_data) ELSE 7
    IN  RSumRange([i \in 1..n |-> InflowOfDay(i)], 1, n)

\* C28: for a non-empty history, risk_level is 'low' exactly when
\* health_score >= 80, 'medium' when 60 <= health_score < 80 and 'high'
\* otherwise; 'low' implies a 7-day inflow sum > 0 and a trend_direction other
\* than 'outflow'; trend_direction 'inflow' implies inflow_score >= 30 and
\* 'outflow' implies inflow_score = 0.
C28_RiskAndTrendConsistent ==
    (hop = "score" /\ storage_fails = {} /\ history_data # <<>>)
    => /\ health.risk_level = "low" <=> health.health_score >= 80
       /\ health.risk_level = "medium"
            <=> (health.health_score >= 60 /\ health.health_score < 80)
       /\ health.risk_level = "high" <=> health.health_score < 60
       /\ health.risk_level = "low" =>
            /\ RLt(Rat(0), SevenDaySum)
            /\ health.main_net_inflow_7d = SevenDaySum
            /\ health.trend_direction # "outflow"
       /\ health.trend_direction = "inflow" =>
            health.score_details.inflow_score >= 30
       /\ health.trend_direction = "outflow" =>
            health.score_details.inflow_score = 0

\* a history scored exactly 80 and so of low risk, with its trend an inflow
C28_Witness ==
    /\ hop = "score"
    /\ storage_fails = {}
    /\ history_data # <<>>
    /\ health.health_score = 80
    /\ health.risk_level = "low"
    /\ health.trend_direction = "inflow"

----------------------------------------------------------------------------
(* C30 *)

\* the last response came from the cache
AnsweredFromCache == index_response # <<>> /\ index_response.body.cached

\* a cached response carries the data of the most recent get_index_data call,
\* which returned less than Ttl seconds before
CachedIsLastFetch ==
    AnsweredFromCache
    => /\ last_fetch # <<>>
       /\ index_response.body.data = last_fetch.data
       /\ index_response.at - last_fetch.stored < Ttl

\* C30 as claimed: over sequential requests get_index_data is called only
\* when no result of it was stored within the previous 300 seconds, and every
\* cached response carries the data of the most recent call, which happened
\* less than 300 seconds before.
C30_FetchOnlyAfterTtlSinceStored ==
    /\ (last_fetch # <<>> /\ last_fetch.previous # <<>>)
       => last_fetch.called - last_fetch.previous[2] >= Ttl
    /\ CachedIsLastFetch

\* C30 as amended: the 300 seconds count from the time the request that made
\* the previous call read the clock, before the call.
C30_FetchOnlyAfterTtlSinceRequest ==
    /\ (last_fetch # <<>> /\ last_fetch.previous # <<>>)
       => last_fetch.called - last_fetch.previous[1] >= Ttl
    /\ CachedIsLastFetch
    /\ AnsweredFromCache => index_response.at - last_fetch.called < Ttl

\* a response from the cache 290 seconds after the request that fetched
\* non-empty data
C30_Witness ==
    /\ AnsweredFromCache
    /\ index_response.body.data # <<>>
    /\ index_response.at - last_fetch.called = 290
    /\ last_fetch.stored > last_fetch.called

====
